---- MODULE Spec2Model ----
(***************************************************************************)
(* Model of habitat-sh/core, components/core/src/package: the package      *)
(* identifier algebra (ident.rs) and the installed-package resolver        *)
(* (install.rs).                                                           *)
(*                                                                         *)
(* Strings are sequences of one-character strings, so that splitting,      *)
(* joining, prefix tests and the byte-wise lexicographic order of Rust's   *)
(* String are computed and not assumed.  An Option<T> is a sequence of     *)
(* length 0 (None) or 1 (Some).  A Result<T> is a record with a field ok.  *)
(***************************************************************************)
EXTENDS Integers, Sequences, FiniteSets

VARIABLES
    root,      \* state of <fs_root>/hab/pkgs: "missing", "notdir", "unreadable", "dir"
    pkgs,      \* release-level directory entries below the package root
    call,      \* the last resolver call: operation, argument, result
    input,     \* the argument handed to an identifier operation
    output     \* what the identifier operation returned

vars == <<root, pkgs, call, input, output>>

(***************************************************************************)
(* Bounds of the model.                                                    *)
(***************************************************************************)
\* largest number of release directories below the package root
MaxPkgs == 3
\* longest string handed to the identifier parser
MaxLen == 7

(***************************************************************************)
(* Strings.                                                                *)
(***************************************************************************)
\* the characters of the model, in ASCII order
Alphabet ==
    <<"-", ".", "/", "0", "1", "2", "3", "4", "5", "6", "7", "8", "9",
      "a", "b", "c", "d", "e", "f", "g", "h", "i", "j", "k", "l", "m",
      "n", "o", "p", "q", "r", "s", "t", "u", "v", "w", "x", "y", "z">>

CharCode == [c \in {Alphabet[i] : i \in 1..Len(Alphabet)} |->
                CHOOSE i \in 1..Len(Alphabet) : Alphabet[i] = c]

Digits == {"0", "1", "2", "3", "4", "5", "6", "7", "8", "9"}

None == <<>>
Some(x) == <<x>>
IsSome(o) == Len(o) = 1
IsNone(o) == Len(o) = 0
Unwrap(o) == o[1]

Ok(v) == [ok |-> TRUE, val |-> v]
Err(kind, v) == [ok |-> FALSE, err |-> kind, val |-> v]

\* Ordering::reverse
Reverse(ord) ==
    CASE ord = "Less" -> "Greater"
      [] ord = "Greater" -> "Less"
      [] OTHER -> "Equal"

\* Ord for usize
IntCmp(a, b) == IF a < b THEN "Less" ELSE IF a > b THEN "Greater" ELSE "Equal"

\* Ord for String (derived on the newtypes): byte-wise lexicographic
RECURSIVE StrCmp(_, _)
StrCmp(a, b) ==
    IF a = <<>> /\ b = <<>> THEN "Equal"
    ELSE IF a = <<>> THEN "Less"
    ELSE IF b = <<>> THEN "Greater"
    ELSE IF CharCode[Head(a)] < CharCode[Head(b)] THEN "Less"
    ELSE IF CharCode[Head(a)] > CharCode[Head(b)] THEN "Greater"
    ELSE StrCmp(Tail(a), Tail(b))

\* Ord for Option<T>: None is less than every Some
OptStrCmp(a, b) ==
    IF IsNone(a) /\ IsNone(b) THEN "Equal"
    ELSE IF IsNone(a) THEN "Less"
    ELSE IF IsNone(b) THEN "Greater"
    ELSE StrCmp(Unwrap(a), Unwrap(b))

\* str::starts_with
StartsWith(s, prefix) ==
    /\ Len(s) >= Len(prefix)
    /\ SubSeq(s, 1, Len(prefix)) = prefix

\* str::split on one separator character: n separators give n + 1 parts
RECURSIVE SplitOn(_, _)
SplitOn(s, sep) ==
    IF \A i \in 1..Len(s) : s[i] # sep THEN <<s>>
    ELSE LET k == CHOOSE i \in 1..Len(s) :
                      /\ s[i] = sep
                      /\ \A j \in 1..(i - 1) : s[j] # sep
         IN  <<SubSeq(s, 1, k - 1)>> \o SplitOn(SubSeq(s, k + 1, Len(s)), sep)

\* write!(f, "{}/{}", ...): the parts joined by the separator
RECURSIVE JoinWith(_, _)
JoinWith(parts, sep) ==
    IF Len(parts) = 0 THEN <<>>
    ELSE IF Len(parts) = 1 THEN parts[1]
    ELSE parts[1] \o <<sep>> \o JoinWith(Tail(parts), sep)

(***************************************************************************)
(* Identifiers (ident.rs).                                                 *)
(***************************************************************************)
NameIdent(o, n) ==
    [variant |-> "Name", origin |-> o, name |-> n, version |-> None, release |-> None]
VersionIdent(o, n, v) ==
    [variant |-> "Version", origin |-> o, name |-> n, version |-> Some(v), release |-> None]
ReleaseIdent(o, n, v, r) ==
    [variant |-> "Release", origin |-> o, name |-> n, version |-> Some(v),
     release |-> Some(r)]

\* Ident::new
IdentNew(o, n, v, r) ==
    IF IsSome(v) /\ IsSome(r) THEN Ok(ReleaseIdent(o, n, Unwrap(v), Unwrap(r)))
    ELSE IF IsSome(v) THEN Ok(VersionIdent(o, n, Unwrap(v)))
    ELSE IF IsNone(r) THEN Ok(NameIdent(o, n))
    ELSE Err("InvalidPackageIdent", JoinWith(<<o, n, <<>>, Unwrap(r)>>, "/"))

fully_qualified(id) == IsSome(id.version) /\ IsSome(id.release)

\* satisfies where a component missing from the query disqualifies
satisfies_MissingDisqualifies(self, other) ==
    IF self.origin # other.origin \/ self.name # other.name THEN FALSE
    ELSE IF IsSome(self.version) /\ self.version # other.version THEN FALSE
    ELSE IF IsSome(self.release) /\ self.release # other.release THEN FALSE
    ELSE TRUE

\* Ident::satisfies, with its early returns
satisfies(self, other) ==
    IF self.origin # other.origin \/ self.name # other.name THEN FALSE
    ELSE IF IsSome(self.version) /\ IsNone(other.version) THEN TRUE
    ELSE IF IsSome(self.version) /\ Unwrap(self.version) # Unwrap(other.version) THEN FALSE
    ELSE IF IsSome(self.release) /\ IsNone(other.release) THEN TRUE
    ELSE IF IsSome(self.release) /\ Unwrap(self.release) # Unwrap(other.release) THEN FALSE
    ELSE TRUE

\* Display where the Version variant is written with the format of NameIdent
to_string_VersionAsName(id) ==
    CASE id.variant = "Release" ->
            JoinWith(<<id.origin, id.name, Unwrap(id.version), Unwrap(id.release)>>, "/")
      [] OTHER -> JoinWith(<<id.origin, id.name>>, "/")

\* Display for Ident
to_string(id) ==
    CASE id.variant = "Release" ->
            JoinWith(<<id.origin, id.name, Unwrap(id.version), Unwrap(id.release)>>, "/")
      [] id.variant = "Version" ->
            JoinWith(<<id.origin, id.name, Unwrap(id.version)>>, "/")
      [] OTHER -> JoinWith(<<id.origin, id.name>>, "/")

\* from_str with the version and the release of four parts exchanged
from_str_PartsExchanged(value) ==
    LET parts == SplitOn(value, "/") IN
    CASE Len(parts) = 4 -> Ok(ReleaseIdent(parts[1], parts[2], parts[4], parts[3]))
      [] Len(parts) = 3 -> Ok(VersionIdent(parts[1], parts[2], parts[3]))
      [] Len(parts) = 2 -> Ok(NameIdent(parts[1], parts[2]))
      [] OTHER -> Err("InvalidPackageIdent", value)

\* from_str with a validation that rejects an empty part
from_str_RejectsEmpty(value) ==
    LET parts == SplitOn(value, "/") IN
    IF \E i \in 1..Len(parts) : parts[i] = <<>> THEN Err("InvalidPackageIdent", value)
    ELSE CASE Len(parts) = 4 -> Ok(ReleaseIdent(parts[1], parts[2], parts[3], parts[4]))
           [] Len(parts) = 3 -> Ok(VersionIdent(parts[1], parts[2], parts[3]))
           [] Len(parts) = 2 -> Ok(NameIdent(parts[1], parts[2]))
           [] OTHER -> Err("InvalidPackageIdent", value)

\* FromStr for Ident; from_raw_parts and Origin::new etc. accept every string
from_str(value) ==
    LET parts == SplitOn(value, "/") IN
    CASE Len(parts) = 4 -> Ok(ReleaseIdent(parts[1], parts[2], parts[3], parts[4]))
      [] Len(parts) = 3 -> Ok(VersionIdent(parts[1], parts[2], parts[3]))
      [] Len(parts) = 2 -> Ok(NameIdent(parts[1], parts[2]))
      [] OTHER -> Err("InvalidPackageIdent", value)

\* FromStr for ReleaseIdent
ReleaseIdent_from_str(value) ==
    LET parts == SplitOn(value, "/") IN
    IF Len(parts) = 4 THEN Ok(ReleaseIdent(parts[1], parts[2], parts[3], parts[4]))
    ELSE Err("InvalidReleaseIdent", value)

\* FromStr for VersionIdent that lets the release part through
VersionIdent_from_str_AcceptsRelease(value) ==
    LET parts == SplitOn(value, "/") IN
    IF Len(parts) \in {3, 4} THEN Ok(VersionIdent(parts[1], parts[2], parts[3]))
    ELSE Err("InvalidVersionIdent", value)

\* FromStr for VersionIdent
VersionIdent_from_str(value) ==
    LET parts == SplitOn(value, "/") IN
    IF Len(parts) = 3 THEN Ok(VersionIdent(parts[1], parts[2], parts[3]))
    ELSE Err("InvalidVersionIdent", value)

\* FromStr for NameIdent
NameIdent_from_str(value) ==
    LET parts == SplitOn(value, "/") IN
    IF Len(parts) = 2 THEN Ok(NameIdent(parts[1], parts[2]))
    ELSE Err("InvalidNameIdent", value)

(***************************************************************************)
(* Version ordering (ident.rs, version_sort and split_version).            *)
(***************************************************************************)
\* u64::MAX, 18446744073709551615, as a digit string
U64MaxDigits ==
    <<"1", "8", "4", "4", "6", "7", "4", "4", "0", "7", "3", "7", "0", "9", "5", "5",
      "1", "6", "1", "5">>

RECURSIVE StripZeros(_)
StripZeros(s) == IF s # <<>> /\ Head(s) = "0" THEN StripZeros(Tail(s)) ELSE s

\* str::parse::<u64> of a run of digits: the value is kept as its digits without
\* leading zeros, so that no width is lost; empty input and overflow are errors
ParseU64(s) ==
    LET n == StripZeros(s) IN
    IF s = <<>> THEN Err("ParseIntError", s)
    ELSE IF Len(n) > Len(U64MaxDigits) THEN Err("ParseIntError", s)
    ELSE IF Len(n) = Len(U64MaxDigits) /\ StrCmp(n, U64MaxDigits) = "Greater"
         THEN Err("ParseIntError", s)
    ELSE Ok(n)

\* the digit strings compared as strings
U64Cmp_AsStrings(a, b) == StrCmp(a, b)

\* Ord for u64 on the digit strings ParseU64 returns
U64Cmp(a, b) == IF Len(a) # Len(b) THEN IntCmp(Len(a), Len(b)) ELSE StrCmp(a, b)

IsVersionChar(c) == c \in Digits \/ c = "."

\* split_version: the regex ([\d\.]+)(.+)? is searched for, not anchored, so the
\* numeric part is the first run of digits and dots anywhere in the string
split_version(version) ==
    IF \A i \in 1..Len(version) : ~IsVersionChar(version[i])
    THEN Err("InvalidPackageIdent", version)
    ELSE
      LET first == CHOOSE i \in 1..Len(version) :
                       /\ IsVersionChar(version[i])
                       /\ \A j \in 1..(i - 1) : ~IsVersionChar(version[j])
          last == CHOOSE k \in first..Len(version) :
                       /\ \A j \in first..k : IsVersionChar(version[j])
                       /\ (k = Len(version) \/ ~IsVersionChar(version[k + 1]))
          version_number == SubSeq(version, first, last)
          rest == SubSeq(version, last + 1, Len(version))
          extension == IF rest = <<>> THEN None
                       ELSE IF Len(rest) > 1 /\ rest[1] = "-" THEN Some(Tail(rest))
                       ELSE Some(rest)
      IN  Ok([parts |-> SplitOn(version_number, "."), extension |-> extension])

\* the tail of version_sort where the version with an extension wins
ExtensionCmp_ExtensionWins(a_extension, b_extension) ==
    IF IsSome(a_extension) /\ IsNone(b_extension) THEN "Greater"
    ELSE IF IsNone(a_extension) /\ IsSome(b_extension) THEN "Less"
    ELSE IF IsNone(a_extension) /\ IsNone(b_extension) THEN "Equal"
    ELSE StrCmp(Unwrap(a_extension), Unwrap(b_extension))

\* the tail of version_sort: the numeric parts were equal
ExtensionCmp(a_extension, b_extension) ==
    IF IsSome(a_extension) /\ IsNone(b_extension) THEN "Less"
    ELSE IF IsNone(a_extension) /\ IsSome(b_extension) THEN "Greater"
    ELSE IF IsNone(a_extension) /\ IsNone(b_extension) THEN "Equal"
    ELSE StrCmp(Unwrap(a_extension), Unwrap(b_extension))

\* the loop of version_sort, at position i of both iterators; "Break" when both
\* are exhausted
RECURSIVE VersionLoop(_, _, _)
VersionLoop(a_parts, b_parts, i) ==
    LET a_exhausted == i > Len(a_parts)
        b_exhausted == i > Len(b_parts)
        a_num == IF a_exhausted THEN Ok(<<>>) ELSE ParseU64(a_parts[i])
        b_num == IF b_exhausted THEN Ok(<<>>) ELSE ParseU64(b_parts[i])
    IN  IF ~a_num.ok THEN a_num
        ELSE IF ~b_num.ok THEN b_num
        ELSE IF a_exhausted /\ b_exhausted THEN Ok("Break")
        ELSE IF U64Cmp(a_num.val, b_num.val) = "Equal"
             THEN VersionLoop(a_parts, b_parts, i + 1)
        ELSE Ok(U64Cmp(a_num.val, b_num.val))

version_sort(a_version, b_version) ==
    LET a == split_version(a_version)
        b == split_version(b_version)
    IN  IF ~a.ok THEN a
        ELSE IF ~b.ok THEN b
        ELSE LET numeric == VersionLoop(a.val.parts, b.val.parts, 1) IN
             IF ~numeric.ok THEN numeric
             ELSE IF numeric.val # "Break" THEN numeric
             ELSE Ok(ExtensionCmp(a.val.extension, b.val.extension))

\* PartialOrd for ReleaseIdent
ReleasePartialCmp(self, other) ==
    LET v == version_sort(Unwrap(self.version), Unwrap(other.version)) IN
    IF v.ok /\ v.val # "Equal" THEN Some(v.val)
    ELSE IF v.ok THEN Some(StrCmp(Unwrap(self.release), Unwrap(other.release)))
    ELSE IF StrCmp(Unwrap(self.version), Unwrap(other.version)) # "Equal"
         THEN Some(StrCmp(Unwrap(self.version), Unwrap(other.version)))
    ELSE Some(StrCmp(Unwrap(self.release), Unwrap(other.release)))

\* PartialOrd for Ident where identifiers of different origins are incomparable
partial_cmp_OriginsCompared(self, other) ==
    IF self.name # other.name \/ self.origin # other.origin THEN None
    ELSE IF self.variant = other.variant /\ self.variant # "Release" THEN None
    ELSE IF self.variant = "Name" THEN Some("Less")
    ELSE IF self.variant = "Version" /\ other.variant = "Release" THEN Some("Less")
    ELSE IF other.variant # "Release" THEN Some("Greater")
    ELSE ReleasePartialCmp(self, other)

\* PartialOrd for Ident
partial_cmp(self, other) ==
    IF self.name # other.name THEN None
    ELSE IF self.variant = other.variant /\ self.variant # "Release" THEN None
    ELSE IF self.variant = "Name" THEN Some("Less")
    ELSE IF self.variant = "Version" /\ other.variant = "Release" THEN Some("Less")
    ELSE IF other.variant # "Release" THEN Some("Greater")
    ELSE ReleasePartialCmp(self, other)

\* Ord for Ident where the releases are compared before the versions
cmp_ReleaseFirst(self, other) ==
    IF self.name # other.name THEN StrCmp(self.name, other.name)
    ELSE IF IsNone(self.version) \/ IsNone(other.version) THEN "Panic"
    ELSE LET v == version_sort(Unwrap(self.version), Unwrap(other.version)) IN
         IF ~v.ok THEN "Less"
         ELSE IF OptStrCmp(self.release, other.release) # "Equal"
              THEN OptStrCmp(self.release, other.release)
         ELSE v.val

\* Ord for Ident; unwrapping a missing version panics
cmp(self, other) ==
    IF self.name # other.name THEN StrCmp(self.name, other.name)
    ELSE IF IsNone(self.version) \/ IsNone(other.version) THEN "Panic"
    ELSE LET v == version_sort(Unwrap(self.version), Unwrap(other.version)) IN
         IF v.ok /\ v.val # "Equal" THEN v.val
         ELSE IF v.ok THEN OptStrCmp(self.release, other.release)
         ELSE "Less"

(***************************************************************************)
(* The package tree on disk.                                               *)
(*                                                                         *)
(* pkgs holds the entries of the release level,                            *)
(* <root>/<origin>/<name>/<version>/<entry>, each with the state of its    *)
(* TARGET metafile.  A TARGET file is absent, cannot be opened, is not     *)
(* UTF-8, or holds a text; a text is a sequence of words, the whitespace   *)
(* included.                                                               *)
(***************************************************************************)
\* install.rs: INSTALL_TMP_PREFIX, ".hab-pkg-install"
INSTALL_TMP_PREFIX ==
    <<".", "h", "a", "b", "-", "p", "k", "g", "-", "i", "n", "s", "t", "a", "l", "l">>

\* PackageTarget::active_target(), fixed at build time
ActiveTarget == "x86_64-linux"
\* the targets PackageTarget::from_str accepts
SupportedTargets == {"x86_64-linux", "x86_64-darwin", "x86_64-windows"}
Whitespace == {" ", "\n"}

Absent == [state |-> "absent", text |-> <<>>]
OpenFails == [state |-> "openfails", text |-> <<>>]
NotUtf8 == [state |-> "notutf8", text |-> <<>>]
Text(t) == [state |-> "text", text |-> t]

\* the TARGET metafiles of the model
TargetFiles ==
    {Absent, OpenFails, NotUtf8, Text(<<>>), Text(<<"x86_64-linux">>),
     Text(<<"x86_64-linux", "\n">>), Text(<<"x86_64-windows">>),
     Text(<<"NOT_A_TARGET_EVER">>)}

Entry(o, n, v, e, t) ==
    [origin |-> o, name |-> n, version |-> v, entry |-> e, target |-> t]

EntryPath(p) == <<p.origin, p.name, p.version, p.entry>>

Origins == {<<"a">>, <<"b">>}
Names == {<<"x">>, <<"y">>}
Versions == {<<"2">>, <<"2", ".", "0">>, <<"a", "1">>, <<"a">>, <<"3">>}
Releases == {<<"7">>, <<"8">>}
TmpRelease == INSTALL_TMP_PREFIX \o <<"-", "x">>

\* the release directories a tree of the model is made of: one package in four
\* versions, a second release of one of them, its newest version with every
\* TARGET metafile, a partial install of that version, and the same version of
\* another origin and of another name
Installable ==
    {Entry(<<"a">>, <<"x">>, v, <<"7">>, Text(<<"x86_64-linux">>)) :
        v \in Versions \ {<<"3">>}}
    \cup {Entry(<<"a">>, <<"x">>, <<"2">>, <<"8">>, Text(<<"x86_64-linux">>))}
    \cup {Entry(<<"a">>, <<"x">>, <<"3">>, <<"7">>, t) : t \in TargetFiles}
    \cup {Entry(<<"a">>, <<"x">>, <<"3">>, TmpRelease, Text(<<"x86_64-linux">>))}
    \cup {Entry(<<"b">>, <<"x">>, <<"3">>, <<"7">>, Text(<<"x86_64-linux">>)),
          Entry(<<"a">>, <<"y">>, <<"3">>, <<"7">>, Text(<<"x86_64-linux">>))}

\* a directory holds one entry of a name
Trees ==
    {t \in SUBSET Installable :
        /\ Cardinality(t) <= MaxPkgs
        /\ \A p, q \in t : EntryPath(p) = EntryPath(q) => p = q}

\* the identifiers the resolver is asked for
Queries ==
    {NameIdent(<<"a">>, <<"x">>), NameIdent(<<"b">>, <<"x">>),
     NameIdent(<<"a">>, <<"y">>), NameIdent(<<"b">>, <<"y">>),
     VersionIdent(<<"a">>, <<"x">>, <<"2">>), VersionIdent(<<"a">>, <<"x">>, <<"a">>),
     ReleaseIdent(<<"a">>, <<"x">>, <<"2">>, <<"7">>),
     ReleaseIdent(<<"a">>, <<"x">>, <<"3">>, <<"7">>),
     ReleaseIdent(<<"a">>, <<"x">>, <<"3">>, TmpRelease),
     ReleaseIdent(<<"a">>, <<"x">>, <<"2", ".", "0">>, <<"8">>)}

\* the orders in which the nested read_dir loops can visit the release level:
\* every order that keeps the entries of one directory together
Grouped(seq) ==
    \A i, k \in 1..Len(seq) : \A j \in i..k :
        /\ seq[i].origin = seq[k].origin => seq[j].origin = seq[i].origin
        /\ (seq[i].origin = seq[k].origin /\ seq[i].name = seq[k].name)
              => seq[j].name = seq[i].name
        /\ (seq[i].origin = seq[k].origin /\ seq[i].name = seq[k].name
                /\ seq[i].version = seq[k].version)
              => seq[j].version = seq[i].version

WalkOrders(tree) ==
    {seq \in [1..Cardinality(tree) -> tree] :
        /\ \A i, j \in 1..Cardinality(tree) : i # j => seq[i] # seq[j]
        /\ Grouped(seq)}

(***************************************************************************)
(* Metafiles and the directory walk (install.rs).                          *)
(***************************************************************************)
\* str::trim on a text
RECURSIVE TrimStart(_)
TrimStart(t) == IF t # <<>> /\ Head(t) \in Whitespace THEN TrimStart(Tail(t)) ELSE t
RECURSIVE TrimEnd(_)
TrimEnd(t) ==
    IF t # <<>> /\ t[Len(t)] \in Whitespace THEN TrimEnd(SubSeq(t, 1, Len(t) - 1)) ELSE t
Trim(t) == TrimEnd(TrimStart(t))

\* read_metafile (the free function), for the TARGET metafile of an entry
read_metafile(file) ==
    CASE file.state = "absent" -> Err("MetaFileNotFound", "TARGET")
      [] file.state = "openfails" -> Err("MetaFileIO", "TARGET")
      [] file.state = "notutf8" -> Err("MetaFileMalformed", "TARGET")
      [] OTHER -> Ok(Trim(file.text))

\* PackageTarget::from_str
PackageTargetFromStr(text) ==
    IF Len(text) = 1 /\ text[1] \in SupportedTargets THEN Ok(text[1])
    ELSE Err("InvalidPackageTarget", text)

\* walk_releases without the test for the temporary-install prefix
WalkRelease_NoPrefixTest(p) ==
    LET metafile_content == read_metafile(p.target)
        install_target == PackageTargetFromStr(metafile_content.val)
    IN  IF ~metafile_content.ok THEN <<>>
        ELSE IF ~install_target.ok THEN <<>>
        ELSE IF ActiveTarget = install_target.val
             THEN <<ReleaseIdent(p.origin, p.name, p.version, p.entry)>>
        ELSE <<>>

\* the body of the loop of walk_releases for one directory entry: the
\* identifiers it pushes
WalkRelease(p) ==
    LET metafile_content == read_metafile(p.target)
        install_target == PackageTargetFromStr(metafile_content.val)
    IN  IF StartsWith(p.entry, INSTALL_TMP_PREFIX) THEN <<>>
        ELSE IF ~metafile_content.ok THEN <<>>
        ELSE IF ~install_target.ok THEN <<>>
        ELSE IF ActiveTarget = install_target.val
             THEN <<ReleaseIdent(p.origin, p.name, p.version, p.entry)>>
        ELSE <<>>

\* walk_origins .. walk_releases over the entries in the order read_dir gives
RECURSIVE walk_releases(_)
walk_releases(seq) ==
    IF seq = <<>> THEN <<>> ELSE WalkRelease(Head(seq)) \o walk_releases(Tail(seq))

\* package_list; rootState is the state of the package root
package_list(rootState, seq) ==
    CASE rootState = "missing" -> Err("Io", <<>>)
      [] rootState = "unreadable" -> Err("Io", <<>>)
      [] rootState = "dir" -> Ok(walk_releases(seq))
      [] OTHER -> Ok(<<>>)

(***************************************************************************)
(* The resolver (install.rs).                                              *)
(***************************************************************************)
\* the PackageInstall the resolver builds for an identifier
PackageInstall(id) ==
    [ident |-> id,
     installed_path |-> <<id.origin, id.name, Unwrap(id.version), Unwrap(id.release)>>]

\* one step of the fold of resolve_package_install
LatestStep(winner, b) ==
    IF IsNone(winner) THEN Some(b)
    ELSE IF partial_cmp(Unwrap(winner), b) = Some("Less") THEN Some(b)
    ELSE winner

RECURSIVE FoldLatest(_, _, _)
FoldLatest(pl, ident, winner) ==
    IF pl = <<>> THEN winner
    ELSE IF satisfies(Head(pl), ident)
         THEN FoldLatest(Tail(pl), ident, LatestStep(winner, Head(pl)))
    ELSE FoldLatest(Tail(pl), ident, winner)

\* resolve_package_install without the test that the package root exists
resolve_package_install_NoRootTest(ident, rootState, seq) ==
    LET pl == package_list(rootState, seq) IN
    IF ~pl.ok THEN pl
    ELSE IF fully_qualified(ident)
         THEN IF \E i \in 1..Len(pl.val) : satisfies(pl.val[i], ident)
              THEN Ok(PackageInstall(ident))
              ELSE Err("PackageNotFound", ident)
    ELSE LET latest == FoldLatest(pl.val, ident, None) IN
         IF IsSome(latest) THEN Ok(PackageInstall(Unwrap(latest)))
         ELSE Err("PackageNotFound", ident)

resolve_package_install(ident, rootState, seq) ==
    LET pl == package_list(rootState, seq) IN
    IF rootState = "missing" THEN Err("PackageNotFound", ident)
    ELSE IF ~pl.ok THEN pl
    ELSE IF fully_qualified(ident)
         THEN IF \E i \in 1..Len(pl.val) : satisfies(pl.val[i], ident)
              THEN Ok(PackageInstall(ident))
              ELSE Err("PackageNotFound", ident)
    ELSE LET latest == FoldLatest(pl.val, ident, None) IN
         IF IsSome(latest) THEN Ok(PackageInstall(Unwrap(latest)))
         ELSE Err("PackageNotFound", ident)

\* one step of the fold of resolve_package_install_min
LatestMinStep(winner, b, ident) ==
    IF IsSome(winner)
    THEN IF cmp(Unwrap(winner), b) = "Less" THEN Some(b) ELSE winner
    ELSE IF cmp(b, ident) = "Less" THEN None ELSE Some(b)

RECURSIVE FoldLatestMin(_, _, _)
FoldLatestMin(pl, ident, winner) ==
    IF pl = <<>> THEN winner
    ELSE IF Head(pl).origin = ident.origin /\ Head(pl).name = ident.name
         THEN FoldLatestMin(Tail(pl), ident, LatestMinStep(winner, Head(pl), ident))
    ELSE FoldLatestMin(Tail(pl), ident, winner)

\* the identifier resolve_package_install_min compares with
MinIdent(original_ident) ==
    IF IsNone(original_ident.version)
    THEN IdentNew(original_ident.origin, original_ident.name,
                  Some(<<"0">>), Some(<<"0">>)).val
    ELSE original_ident

resolve_package_install_min(original_ident, rootState, seq) ==
    LET ident == MinIdent(original_ident)
        pl == package_list(rootState, seq)
    IN  IF rootState = "missing" THEN Err("PackageNotFound", original_ident)
        ELSE IF ~pl.ok THEN pl
        ELSE LET latest == FoldLatestMin(pl.val, ident, None) IN
             IF IsSome(latest) THEN Ok(PackageInstall(Unwrap(latest)))
             ELSE Err("PackageNotFound", original_ident)

(***************************************************************************)
(* The resolver as a state machine: a package tree, and calls against it.  *)
(***************************************************************************)
NoCall == [op |-> "none", ident |-> None, result |-> Ok(<<>>)]
NoInput == [kind |-> "none"]
NoOutput == [op |-> "none"]

Init ==
    /\ root \in {"missing", "notdir", "unreadable", "dir"}
    /\ pkgs \in Trees
    /\ root # "dir" => pkgs = {}
    /\ call = NoCall
    /\ input = NoInput
    /\ output = NoOutput

\* PackageInstall::load
Load ==
    \E seq \in WalkOrders(pkgs) : \E ident \in Queries :
        /\ call' = [op |-> "load", ident |-> Some(ident),
                    result |-> resolve_package_install(ident, root, seq)]
        /\ UNCHANGED <<root, pkgs, input, output>>

\* PackageInstall::load_at_least
LoadAtLeast ==
    \E seq \in WalkOrders(pkgs) : \E ident \in Queries :
        /\ call' = [op |-> "load_at_least", ident |-> Some(ident),
                    result |-> resolve_package_install_min(ident, root, seq)]
        /\ UNCHANGED <<root, pkgs, input, output>>

\* PackageInstall::package_list
PackageList ==
    \E seq \in WalkOrders(pkgs) :
        /\ call' = [op |-> "package_list", ident |-> None,
                    result |-> package_list(root, seq)]
        /\ UNCHANGED <<root, pkgs, input, output>>

Next == Load \/ LoadAtLeast \/ PackageList

Spec == Init /\ [][Next]_vars

(***************************************************************************)
(* Properties of the resolver.                                             *)
(***************************************************************************)
\* an entry of the release level qualifies: no temporary-install prefix, and a
\* TARGET metafile that exists, can be read, parses and is the active target
Qualifies(p) ==
    /\ ~StartsWith(p.entry, INSTALL_TMP_PREFIX)
    /\ p.target.state = "text"
    /\ PackageTargetFromStr(Trim(p.target.text)) = Ok(ActiveTarget)

IdentOf(p) == ReleaseIdent(p.origin, p.name, p.version, p.entry)

\* the candidates of the tree: the identifiers of its qualifying entries
Candidates == {IdentOf(p) : p \in {e \in pkgs : Qualifies(e)}}

\* the rule of satisfies as the specification words it
SatisfiesRule(self, other) ==
    /\ self.origin = other.origin
    /\ self.name = other.name
    /\ ~(IsSome(self.version) /\ IsSome(other.version) /\ self.version # other.version)
    /\ ~(IsSome(self.release) /\ IsSome(other.release) /\ self.release # other.release)

Range(seq) == {seq[i] : i \in 1..Len(seq)}

C2_LoadReturnsMaximum ==
    (call.op = "load" /\ root = "dir" /\ ~fully_qualified(Unwrap(call.ident)))
        => LET q == Unwrap(call.ident)
               S == {c \in Candidates : SatisfiesRule(c, q)}
           IN  /\ (S = {}) <=> (call.result = Err("PackageNotFound", q))
               /\ S # {} =>
                     /\ call.result.ok
                     /\ call.result.val.ident \in S
                     /\ \A c \in S :
                           partial_cmp(c, call.result.val.ident) # Some("Greater")

\* C3: two load calls with the same fuzzy identifier against the same
\* installed packages return the same release, whatever the order in which the
\* walk enumerates the candidates.
C3_LoadDeterministic ==
    [][(/\ call.op = "load"
        /\ call'.op = "load"
        /\ call'.ident = call.ident
        /\ ~fully_qualified(Unwrap(call.ident)))
          => call'.result = call.result]_vars

C5_LoadAtLeastMaximum ==
    (call.op = "load_at_least" /\ root = "dir")
        => LET original == Unwrap(call.ident)
               q == IF IsNone(original.version)
                    THEN ReleaseIdent(original.origin, original.name, <<"0">>, <<"0">>)
                    ELSE original
               S == {c \in Candidates : c.origin = q.origin /\ c.name = q.name}
           IN  IF \E c \in S : cmp(c, q) # "Less"
               THEN /\ call.result.ok
                    /\ call.result.val.ident \in S
                    /\ cmp(call.result.val.ident, q) # "Less"
                    /\ \A c \in S : cmp(c, call.result.val.ident) # "Greater"
               ELSE call.result = Err("PackageNotFound", original)

\* C6: load_at_least with an identifier without a version succeeds whenever a
\* candidate with that origin and name is enumerated, whatever its version.
C6_LoadAtLeastNoVersion ==
    (/\ call.op = "load_at_least"
     /\ root = "dir"
     /\ IsNone(Unwrap(call.ident).version)
     /\ \E c \in Candidates :
           c.origin = Unwrap(call.ident).origin /\ c.name = Unwrap(call.ident).name)
        => call.result.ok

(***************************************************************************)
(* The identifier operations as a state machine: an argument, and the      *)
(* operations of ident.rs applied to it.                                   *)
(***************************************************************************)
\* the characters of the strings handed to the parser
ParseChars == {"a", "1", "/"}

RECURSIVE StringsUpTo(_)
StringsUpTo(n) ==
    IF n = 0 THEN {<<>>}
    ELSE LET shorter == StringsUpTo(n - 1) IN
         shorter \cup {Append(t, c) : t \in {u \in shorter : Len(u) = n - 1},
                                      c \in ParseChars}

Strings == StringsUpTo(MaxLen)

\* the fields of the identifiers handed to satisfies
Fields == {<<"a">>, <<"1">>}
\* the fields of the identifiers that are printed: empty, plain, and one that
\* holds the separator
PrintedFields == {<<>>, <<"a">>, <<"1">>, <<"a", "/", "1">>}

IdentsOver(fields) ==
    {NameIdent(o, n) : o \in fields, n \in fields}
    \cup {VersionIdent(o, n, v) : o \in fields, n \in fields, v \in fields}
    \cup {ReleaseIdent(o, n, v, r) : o \in fields, n \in fields, v \in fields, r \in fields}

StrInput(str) == [kind |-> "str", s |-> str, a |-> None, b |-> None]
IdentInput(x) == [kind |-> "ident", s |-> <<>>, a |-> Some(x), b |-> None]
PairInput(x, y) == [kind |-> "pair", s |-> <<>>, a |-> Some(x), b |-> Some(y)]

InitIdent ==
    /\ root = "missing"
    /\ pkgs = {}
    /\ call = NoCall
    /\ input \in {StrInput(str) : str \in Strings}
                 \cup {IdentInput(x) : x \in IdentsOver(PrintedFields)}
                 \cup {PairInput(x, y) : x \in IdentsOver(Fields), y \in IdentsOver(Fields)}
    /\ output = NoOutput

\* Ident::from_str
FromStr ==
    /\ input.kind = "str"
    /\ output' = [op |-> "from_str", result |-> from_str(input.s)]
    /\ UNCHANGED <<root, pkgs, call, input>>

\* from_str(s).to_string(), as in from_str_to_string_round_trip
FromStrToString ==
    /\ input.kind = "str"
    /\ output' = [op |-> "from_str_to_string",
                  result |-> IF from_str(input.s).ok
                             THEN Ok(to_string(from_str(input.s).val))
                             ELSE from_str(input.s)]
    /\ UNCHANGED <<root, pkgs, call, input>>

\* Display for Ident, through to_string
Display ==
    /\ input.kind = "ident"
    /\ output' = [op |-> "to_string", result |-> to_string(Unwrap(input.a))]
    /\ UNCHANGED <<root, pkgs, call, input>>

\* from_str(&x.to_string())
ToStringFromStr ==
    /\ input.kind = "ident"
    /\ output' = [op |-> "to_string_from_str",
                  result |-> from_str(to_string(Unwrap(input.a)))]
    /\ UNCHANGED <<root, pkgs, call, input>>

\* Ident::satisfies
Satisfies ==
    /\ input.kind = "pair"
    /\ output' = [op |-> "satisfies",
                  result |-> satisfies(Unwrap(input.a), Unwrap(input.b))]
    /\ UNCHANGED <<root, pkgs, call, input>>

\* ReleaseIdent::from_str
ReleaseFromStr ==
    /\ input.kind = "str"
    /\ output' = [op |-> "release_from_str", result |-> ReleaseIdent_from_str(input.s)]
    /\ UNCHANGED <<root, pkgs, call, input>>

\* VersionIdent::from_str
VersionFromStr ==
    /\ input.kind = "str"
    /\ output' = [op |-> "version_from_str", result |-> VersionIdent_from_str(input.s)]
    /\ UNCHANGED <<root, pkgs, call, input>>

\* NameIdent::from_str
NameFromStr ==
    /\ input.kind = "str"
    /\ output' = [op |-> "name_from_str", result |-> NameIdent_from_str(input.s)]
    /\ UNCHANGED <<root, pkgs, call, input>>

NextIdent ==
    \/ FromStr \/ FromStrToString \/ Display \/ ToStringFromStr \/ Satisfies
    \/ ReleaseFromStr \/ VersionFromStr \/ NameFromStr

SpecIdent == InitIdent /\ [][NextIdent]_vars

(***************************************************************************)
(* Properties of the identifiers.                                          *)
(***************************************************************************)
\* the positions of the separator in a string, and the k-th of the segments
\* they delimit
SeparatorsOf(str) == {i \in 1..Len(str) : str[i] = "/"}
SegmentCount(str) == Cardinality(SeparatorsOf(str)) + 1
NthSeparator(str, k) ==
    CHOOSE i \in SeparatorsOf(str) :
        Cardinality({j \in SeparatorsOf(str) : j < i}) = k - 1
Segment(str, k) ==
    SubSeq(str,
           IF k = 1 THEN 1 ELSE NthSeparator(str, k - 1) + 1,
           IF k = SegmentCount(str) THEN Len(str) ELSE NthSeparator(str, k) - 1)

FieldsOf(id) ==
    {id.origin, id.name}
    \cup (IF IsSome(id.version) THEN {Unwrap(id.version)} ELSE {})
    \cup (IF IsSome(id.release) THEN {Unwrap(id.release)} ELSE {})

HasSeparator(field) == \E i \in 1..Len(field) : field[i] = "/"

\* C7: satisfies(self, other) is false if origins or names differ, false if
\* both have a version and the versions differ, false if both have a release
\* and the releases differ, and true otherwise; a missing component on either
\* side never disqualifies, and satisfies(x, x) holds for fully qualified x.
C7_SatisfiesRule ==
    output.op = "satisfies"
        => LET self == Unwrap(input.a)
               other == Unwrap(input.b)
           IN  /\ output.result = SatisfiesRule(self, other)
               /\ (self = other /\ fully_qualified(self)) => output.result

\* C7 witness: a release answered a query that names no release
C7_Witness ==
    /\ output.op = "satisfies"
    /\ Unwrap(input.a).variant = "Release"
    /\ Unwrap(input.b).variant = "Version"
    /\ output.result

\* C8: parsing splits on '/': 2 segments give a Name identifier, 3 a Version
\* identifier, 4 a Release identifier, the segments taken in order as origin,
\* name, version, release; every other count fails with InvalidPackageIdent
\* carrying the input.
C8_ParseBySegmentCount ==
    output.op = "from_str"
        => LET str == input.s
               n == SegmentCount(str)
           IN  CASE n = 2 -> output.result = Ok(NameIdent(Segment(str, 1), Segment(str, 2)))
                 [] n = 3 -> output.result =
                                 Ok(VersionIdent(Segment(str, 1), Segment(str, 2),
                                                 Segment(str, 3)))
                 [] n = 4 -> output.result =
                                 Ok(ReleaseIdent(Segment(str, 1), Segment(str, 2),
                                                 Segment(str, 3), Segment(str, 4)))
                 [] OTHER -> output.result = Err("InvalidPackageIdent", str)

\* C8 witness: four non-empty segments gave a Release identifier whose version
\* and release differ
C8_Witness ==
    /\ output.op = "from_str"
    /\ output.result.ok
    /\ output.result.val.variant = "Release"
    /\ <<>> \notin FieldsOf(output.result.val)
    /\ output.result.val.version # output.result.val.release

ValidIdent(id) == \A f \in FieldsOf(id) : ~HasSeparator(f)

\* C10: for every valid identifier x, parse(print(x)) = x, the variant
\* included; and for every string s that parses, print(parse(s)) = s.
C10_RoundTrip ==
    /\ (output.op = "to_string_from_str" /\ ValidIdent(Unwrap(input.a)))
          => output.result = Ok(Unwrap(input.a))
    /\ (output.op = "from_str_to_string" /\ output.result.ok)
          => output.result.val = input.s

\* C10 witness: a Version identifier was printed and parsed back
C10_Witness ==
    /\ output.op = "to_string_from_str"
    /\ Unwrap(input.a).variant = "Version"
    /\ ValidIdent(Unwrap(input.a))
    /\ output.result = Ok(Unwrap(input.a))

\* C11: each variant-specific parser accepts only its own segment count:
\* ReleaseIdent parsing succeeds on exactly 4 segments and fails with
\* InvalidReleaseIdent otherwise, VersionIdent on exactly 3 (InvalidVersionIdent),
\* NameIdent on exactly 2 (InvalidNameIdent); the error carries the input
\* unmodified, and a success holds the segments in order.
C11_VariantSegmentCount ==
    LET str == input.s
        n == SegmentCount(str)
    IN  /\ output.op = "release_from_str"
              => output.result =
                    IF n = 4
                    THEN Ok(ReleaseIdent(Segment(str, 1), Segment(str, 2),
                                         Segment(str, 3), Segment(str, 4)))
                    ELSE [ok |-> FALSE, err |-> "InvalidReleaseIdent", val |-> str]
        /\ output.op = "version_from_str"
              => output.result =
                    IF n = 3
                    THEN Ok(VersionIdent(Segment(str, 1), Segment(str, 2), Segment(str, 3)))
                    ELSE [ok |-> FALSE, err |-> "InvalidVersionIdent", val |-> str]
        /\ output.op = "name_from_str"
              => output.result =
                    IF n = 2 THEN Ok(NameIdent(Segment(str, 1), Segment(str, 2)))
                    ELSE [ok |-> FALSE, err |-> "InvalidNameIdent", val |-> str]

\* C11 witness: the VersionIdent parser rejected a string of four non-empty
\* segments, with the string in the error
C11_Witness ==
    /\ output.op = "version_from_str"
    /\ SegmentCount(input.s) = 4
    /\ \A k \in 1..4 : Segment(input.s, k) # <<>>
    /\ output.result = [ok |-> FALSE, err |-> "InvalidVersionIdent", val |-> input.s]

(***************************************************************************)
(* The orderings as a state machine: two versions or two identifiers, and  *)
(* the comparisons of ident.rs applied to them.                            *)
(***************************************************************************)
\* the longest version string handed to version_sort
MaxVerLen == 3

\* the characters of the version strings: digits whose numbers and strings
\* order differently (100 and 11), the dot, the dash and a letter
VersionChars == {"0", "1", ".", "-", "a"}

RECURSIVE VersionStringsUpTo(_)
VersionStringsUpTo(n) ==
    IF n = 0 THEN {<<>>}
    ELSE LET shorter == VersionStringsUpTo(n - 1) IN
         shorter \cup {Append(t, c) : t \in {u \in shorter : Len(u) = n - 1},
                                      c \in VersionChars}

VersionStrings == VersionStringsUpTo(MaxVerLen)

\* the versions of the identifiers that are compared: numeric, equal as numbers
\* (1 and 1.0), with an extension, not numeric, empty, and with digits after a
\* letter
OrderedVersions ==
    {<<"1">>, <<"1", ".", "0">>, <<"1", "1">>, <<"1", "-", "a">>, <<"a">>, <<"a", "1">>,
     <<"-">>, <<>>}

OrderedIdents ==
    {NameIdent(o, n) : o \in Fields, n \in Fields}
    \cup {VersionIdent(o, n, v) : o \in Fields, n \in Fields, v \in OrderedVersions}
    \cup {ReleaseIdent(o, n, v, r) :
             o \in Fields, n \in Fields, v \in OrderedVersions, r \in Fields}

VersionsInput(v, w) == [kind |-> "versions", s |-> <<>>, a |-> Some(v), b |-> Some(w)]

InitOrder ==
    /\ root = "missing"
    /\ pkgs = {}
    /\ call = NoCall
    /\ \/ \E v \in VersionStrings, w \in VersionStrings : input = VersionsInput(v, w)
       \/ \E x \in OrderedIdents, y \in OrderedIdents : input = PairInput(x, y)
    /\ output = NoOutput

\* version_sort
VersionSort ==
    /\ input.kind = "versions"
    /\ output' = [op |-> "version_sort",
                  result |-> version_sort(Unwrap(input.a), Unwrap(input.b))]
    /\ UNCHANGED <<root, pkgs, call, input>>

\* Ident::partial_cmp
PartialCmp ==
    /\ input.kind = "pair"
    /\ output' = [op |-> "partial_cmp",
                  result |-> partial_cmp(Unwrap(input.a), Unwrap(input.b))]
    /\ UNCHANGED <<root, pkgs, call, input>>

\* Ident::cmp
Cmp ==
    /\ input.kind = "pair"
    /\ output' = [op |-> "cmp", result |-> cmp(Unwrap(input.a), Unwrap(input.b))]
    /\ UNCHANGED <<root, pkgs, call, input>>

NextOrder == VersionSort \/ PartialCmp \/ Cmp

SpecOrder == InitOrder /\ [][NextOrder]_vars

(***************************************************************************)
(* Properties of the orderings.                                            *)
(***************************************************************************)
\* the comparison of two versions as the orderings use it: version_sort, and
\* the lexicographic order of the raw strings where version_sort fails
VersionOrder(a_version, b_version) ==
    IF version_sort(a_version, b_version).ok THEN version_sort(a_version, b_version).val
    ELSE StrCmp(a_version, b_version)

ComponentCount(id) ==
    CASE id.variant = "Name" -> 2
      [] id.variant = "Version" -> 3
      [] id.variant = "Release" -> 4

\* C12: the partial order ignores origins and is defined only when the names
\* are equal: with equal names, Name against Name and Version against Version
\* are incomparable, the variant with fewer components is Less (Name < Version
\* < Release), and two Release identifiers compare by version, and by release
\* when the versions tie; with different names the result is incomparable.
C12_PartialOrder ==
    output.op = "partial_cmp"
        => LET self == Unwrap(input.a)
               other == Unwrap(input.b)
               v == VersionOrder(Unwrap(self.version), Unwrap(other.version))
           IN  /\ output.result =
                     IF self.name # other.name THEN None
                     ELSE IF ComponentCount(self) < ComponentCount(other) THEN Some("Less")
                     ELSE IF ComponentCount(self) > ComponentCount(other)
                          THEN Some("Greater")
                     ELSE IF self.variant # "Release" THEN None
                     ELSE IF v # "Equal" THEN Some(v)
                     ELSE Some(StrCmp(Unwrap(self.release), Unwrap(other.release)))
               /\ \A o1 \in Fields, o2 \in Fields :
                     partial_cmp([self EXCEPT !.origin = o1], [other EXCEPT !.origin = o2])
                        = output.result

\* C12 witness: two releases of different origins and of the same name and
\* version were ordered by their releases
C12_Witness ==
    /\ output.op = "partial_cmp"
    /\ Unwrap(input.a).variant = "Release"
    /\ Unwrap(input.b).variant = "Release"
    /\ Unwrap(input.a).origin # Unwrap(input.b).origin
    /\ Unwrap(input.a).name = Unwrap(input.b).name
    /\ Unwrap(input.a).version = Unwrap(input.b).version
    /\ output.result = Some("Greater")

C14_LexicographicFallback ==
    (/\ output.op = "cmp"
     /\ Unwrap(input.a).name = Unwrap(input.b).name
     /\ IsSome(Unwrap(input.a).version)
     /\ IsSome(Unwrap(input.b).version)
     /\ ~version_sort(Unwrap(Unwrap(input.a).version), Unwrap(Unwrap(input.b).version)).ok)
        => LET self == Unwrap(input.a)
               other == Unwrap(input.b)
               lex == StrCmp(Unwrap(self.version), Unwrap(other.version))
           IN  output.result = IF lex # "Equal" THEN lex
                               ELSE OptStrCmp(self.release, other.release)

\* C15: for all fully qualified identifiers a and b of the same name, exactly
\* one of a < b, a == b, a > b holds, < and > being those of the total order
\* and == the derived equality.
C15_Trichotomy ==
    (/\ output.op = "cmp"
     /\ fully_qualified(Unwrap(input.a))
     /\ fully_qualified(Unwrap(input.b))
     /\ Unwrap(input.a).name = Unwrap(input.b).name)
        => Cardinality({r \in {"lt", "eq", "gt"} :
                          \/ r = "lt" /\ output.result = "Less"
                          \/ r = "eq" /\ Unwrap(input.a) = Unwrap(input.b)
                          \/ r = "gt" /\ output.result = "Greater"}) = 1

\* the numeric part of a version, read from the start of the string: its
\* longest prefix of digits and dots, and the components the dots delimit
NumericPrefixLen(version) ==
    Cardinality({k \in 1..Len(version) : \A j \in 1..k : IsVersionChar(version[j])})
Components(version) == SplitOn(SubSeq(version, 1, NumericPrefixLen(version)), ".")

\* the text after the numeric part, without the dash that introduces it
ExtensionOf(version) ==
    LET rest == SubSeq(version, NumericPrefixLen(version) + 1, Len(version)) IN
    IF rest = <<>> THEN None
    ELSE IF Len(rest) > 1 /\ rest[1] = "-" THEN Some(Tail(rest))
    ELSE Some(rest)

\* a version that begins with a numeric part whose components are all numbers
WellFormed(version) ==
    /\ NumericPrefixLen(version) > 0
    /\ \A i \in 1..Len(Components(version)) : Components(version)[i] # <<>>

\* the number a run of digits denotes
RECURSIVE DecimalValue(_)
DecimalValue(digits) ==
    IF digits = <<>> THEN 0
    ELSE 10 * DecimalValue(SubSeq(digits, 1, Len(digits) - 1))
         + (CharCode[digits[Len(digits)]] - CharCode["0"])

\* the i-th component as a number, 0 where the version has no i-th component
ComponentValue(version, i) ==
    IF i <= Len(Components(version)) THEN DecimalValue(Components(version)[i]) ELSE 0

\* the positions where the components of two versions differ as numbers
Differing(a_version, b_version) ==
    {i \in 1..(Len(a_version) + Len(b_version) + 1) :
        ComponentValue(a_version, i) # ComponentValue(b_version, i)}

FirstDiffering(a_version, b_version) ==
    CHOOSE i \in Differing(a_version, b_version) :
        \A j \in Differing(a_version, b_version) : i <= j

\* C16: version_sort compares the dot-separated components of two versions
\* pairwise as unsigned integers, not as strings, a component missing on
\* either side counting as 0, and the first unequal pair decides: the result
\* is the order of the two numbers of that pair (1.10 > 1.9); versions without
\* extension whose components are all equal are Equal (1.2 == 1.2.0).
C16_NumericComponents ==
    (/\ output.op = "version_sort"
     /\ WellFormed(Unwrap(input.a))
     /\ WellFormed(Unwrap(input.b)))
        => LET a == Unwrap(input.a)
               b == Unwrap(input.b)
           IN  /\ Differing(a, b) # {}
                     => output.result =
                           Ok(IntCmp(ComponentValue(a, FirstDiffering(a, b)),
                                     ComponentValue(b, FirstDiffering(a, b))))
               /\ (Differing(a, b) = {} /\ IsNone(ExtensionOf(a)) /\ IsNone(ExtensionOf(b)))
                     => output.result = Ok("Equal")

\* C16 witness: 100 was found Greater than 11, which as a string is the lesser
C16_Witness ==
    /\ output.op = "version_sort"
    /\ Unwrap(input.a) = <<"1", "0", "0">>
    /\ Unwrap(input.b) = <<"1", "1">>
    /\ StrCmp(Unwrap(input.a), Unwrap(input.b)) = "Less"
    /\ output.result = Ok("Greater")

\* C17: when all numeric components of two versions are equal, version_sort
\* returns Equal if neither has an extension, finds the version without
\* extension Greater when exactly one has an extension (1.0.0 > 1.0.0-alpha1),
\* and compares the two extensions lexicographically when both have one.
C17_Extensions ==
    (/\ output.op = "version_sort"
     /\ WellFormed(Unwrap(input.a))
     /\ WellFormed(Unwrap(input.b))
     /\ Differing(Unwrap(input.a), Unwrap(input.b)) = {})
        => LET a_extension == ExtensionOf(Unwrap(input.a))
               b_extension == ExtensionOf(Unwrap(input.b))
           IN  output.result =
                  Ok(CASE IsNone(a_extension) /\ IsNone(b_extension) -> "Equal"
                       [] IsNone(a_extension) /\ IsSome(b_extension) -> "Greater"
                       [] IsSome(a_extension) /\ IsNone(b_extension) -> "Less"
                       [] OTHER -> StrCmp(Unwrap(a_extension), Unwrap(b_extension)))

\* C17 witness: 1.0 was found Greater than 1-a, the components being equal
\* and only the second version having an extension
C17_Witness ==
    /\ output.op = "version_sort"
    /\ Unwrap(input.a) = <<"1", ".", "0">>
    /\ Unwrap(input.b) = <<"1", "-", "a">>
    /\ output.result = Ok("Greater")

\* C18: version splitting is anchored at the start of the string:
\* version_sort returns an error for every version that does not begin with
\* a numeric part of digits and dots (v1.2, master1), and does not compare
\* digits found later in the string.
C18_AnchoredSplit ==
    (/\ output.op = "version_sort"
     /\ \/ NumericPrefixLen(Unwrap(input.a)) = 0
        \/ NumericPrefixLen(Unwrap(input.b)) = 0)
        => ~output.result.ok

(***************************************************************************)
(* Metafiles of an installed package and the runtime path (install.rs).    *)
(*                                                                         *)
(* An installed package is a release directory with its TARGET, PATH,      *)
(* RUNTIME_PATH, DEPS and TDEPS metafiles; the texts are strings.  A path  *)
(* is a string; two paths are equal when their components are.             *)
(***************************************************************************)
Installed(o, n, v, e, t, path, runtime_path, deps, tdeps) ==
    [origin |-> o, name |-> n, version |-> v, entry |-> e, target |-> t,
     path |-> path, runtime_path |-> runtime_path, deps |-> deps, tdeps |-> tdeps]

\* the directory the resolver found a package in
InstalledAt(world, install) == CHOOSE p \in world : EntryPath(p) = install.installed_path

MetaFileOf(pkg, file) ==
    CASE file = "PATH" -> pkg.path
      [] file = "RUNTIME_PATH" -> pkg.runtime_path
      [] file = "DEPS" -> pkg.deps
      [] file = "TDEPS" -> pkg.tdeps
      [] file = "TARGET" -> pkg.target
      [] OTHER -> pkg.meta[file]

\* PackageInstall::read_metafile: read_metafile for a metafile of the package
PackageInstall_read_metafile(pkg, file) ==
    LET data == read_metafile(MetaFileOf(pkg, file)) IN
    IF data.ok THEN data ELSE Err(data.err, file)

\* fs::pkg_install_path without fs_root; the root of the packages, the same for
\* all of them, is left out
pkg_install_path(ident) ==
    <<"/">> \o JoinWith(<<ident.origin, ident.name, Unwrap(ident.version),
                          Unwrap(ident.release)>>, "/")

\* env::split_paths on Unix
split_paths(body) == SplitOn(body, ":")

NotEmpty(component) == component # <<>>

\* Path::components: empty components and a trailing separator do not count
PathComponents(p) ==
    [absolute |-> p # <<>> /\ p[1] = "/",
     parts |-> SelectSeq(SplitOn(p, "/"), NotEmpty)]

\* Path::starts_with, by whole components
PathStartsWith(p, base) ==
    /\ PathComponents(p).absolute = PathComponents(base).absolute
    /\ StartsWith(PathComponents(p).parts, PathComponents(base).parts)

\* PartialEq for PathBuf, which the HashSet of seen paths uses
PathEq(p, q) == PathComponents(p) = PathComponents(q)

RECURSIVE FilterPrefix(_, _)
FilterPrefix(entries, pkg_prefix) ==
    IF entries = <<>> THEN <<>>
    ELSE (IF PathStartsWith(Head(entries), pkg_prefix) THEN <<Head(entries)>> ELSE <<>>)
         \o FilterPrefix(Tail(entries), pkg_prefix)

\* paths that keeps every entry of the PATH metafile
paths_NoFilter(pkg) ==
    LET body == PackageInstall_read_metafile(pkg, "PATH") IN
    IF body.ok
    THEN IF body.val = <<>> THEN Ok(<<>>) ELSE Ok(split_paths(body.val))
    ELSE IF body.err = "MetaFileNotFound" THEN Ok(<<>>)
    ELSE body

\* PackageInstall::paths, on Unix
paths(pkg) ==
    LET body == PackageInstall_read_metafile(pkg, "PATH")
        pkg_prefix ==
            pkg_install_path(ReleaseIdent(pkg.origin, pkg.name, pkg.version, pkg.entry))
    IN  IF body.ok
        THEN IF body.val = <<>> THEN Ok(<<>>)
             ELSE Ok(FilterPrefix(split_paths(body.val), pkg_prefix))
        ELSE IF body.err = "MetaFileNotFound" THEN Ok(<<>>)
        ELSE body

\* str::lines
Lines(body) ==
    LET parts == SplitOn(body, "\n") IN
    IF parts[Len(parts)] = <<>> THEN SubSeq(parts, 1, Len(parts) - 1) ELSE parts

\* the loop of read_deps over the lines
RECURSIVE ReadDepsLoop(_, _)
ReadDepsLoop(lines, must_be_fully_qualified) ==
    IF lines = <<>> THEN Ok(<<>>)
    ELSE LET package == from_str(Head(lines))
             rest == ReadDepsLoop(Tail(lines), must_be_fully_qualified)
         IN  IF ~package.ok THEN package
             ELSE IF ~fully_qualified(package.val) /\ must_be_fully_qualified
                  THEN Err("FullyQualifiedPackageIdentRequired", to_string(package.val))
             ELSE IF ~rest.ok THEN rest
             ELSE Ok(<<package.val>> \o rest.val)

\* read_deps that wants fully qualified identifiers in every metafile
read_deps_AlwaysQualified(pkg, file) ==
    LET body == PackageInstall_read_metafile(pkg, file) IN
    IF body.ok
    THEN IF Len(body.val) > 0 THEN ReadDepsLoop(Lines(body.val), TRUE)
         ELSE Ok(<<>>)
    ELSE IF body.err = "MetaFileNotFound" THEN Ok(<<>>)
    ELSE body

\* PackageInstall::read_deps
read_deps(pkg, file) ==
    LET body == PackageInstall_read_metafile(pkg, file) IN
    IF body.ok
    THEN IF Len(body.val) > 0 THEN ReadDepsLoop(Lines(body.val), file # "SERVICES")
         ELSE Ok(<<>>)
    ELSE IF body.err = "MetaFileNotFound" THEN Ok(<<>>)
    ELSE body

\* the loop of load_deps and of load_tdeps: load for each identifier
\* one turn of the loop: the first error ends it, else the package is pushed
LoadedWith(dep_install, rest) ==
    IF ~dep_install.ok THEN dep_install
    ELSE IF ~rest.ok THEN rest
    ELSE Ok(<<dep_install.val>> \o rest.val)

RECURSIVE LoadEach(_, _, _)
LoadEach(idents, rootState, seq) ==
    IF idents = <<>> THEN Ok(<<>>)
    ELSE LoadedWith(resolve_package_install(Head(idents), rootState, seq),
                    LoadEach(Tail(idents), rootState, seq))

\* read_deps(..)?, then the loop over the identifiers read
LoadRead(ddeps, rootState, seq) ==
    IF ~ddeps.ok THEN ddeps ELSE LoadEach(ddeps.val, rootState, seq)

load_deps(pkg, rootState, seq) == LoadRead(read_deps(pkg, "DEPS"), rootState, seq)

load_tdeps(pkg, rootState, seq) == LoadRead(read_deps(pkg, "TDEPS"), rootState, seq)

\* for p in ...: a path already seen is skipped, another is pushed
RECURSIVE PushUnseen(_, _)
PushUnseen(pushed, entries) ==
    IF entries = <<>> THEN pushed
    ELSE IF \E i \in 1..Len(pushed) : PathEq(pushed[i], Head(entries))
         THEN PushUnseen(pushed, Tail(entries))
    ELSE PushUnseen(Append(pushed, Head(entries)), Tail(entries))

\* for pkg in ordered_pkgs: the paths of each package in turn
RECURSIVE PushPackages(_, _, _)
PushPackages(pushed, ordered_pkgs, world) ==
    IF ordered_pkgs = <<>> THEN Ok(pushed)
    ELSE LET pkg_paths == paths(InstalledAt(world, Head(ordered_pkgs))) IN
         IF ~pkg_paths.ok THEN pkg_paths
         ELSE PushPackages(PushUnseen(pushed, pkg_paths.val), Tail(ordered_pkgs), world)

\* the body of legacy_runtime_paths once self.paths()?, self.load_deps()? and
\* self.load_tdeps()? are evaluated: the first error is returned, else the
\* paths are pushed, of the package, of deps, then of tdeps
PushOrdered(own, deps, tdeps, world) ==
    IF ~own.ok THEN own
    ELSE IF ~deps.ok THEN deps
    ELSE IF ~tdeps.ok THEN tdeps
    ELSE PushPackages(PushUnseen(<<>>, own.val), deps.val \o tdeps.val, world)

\* legacy_runtime_paths with the transitive dependencies before the direct ones
legacy_runtime_paths_TdepsFirst(pkg, world, rootState, seq) ==
    PushOrdered(paths(pkg), load_tdeps(pkg, rootState, seq),
                load_deps(pkg, rootState, seq), world)

\* PackageInstall::legacy_runtime_paths
legacy_runtime_paths(pkg, world, rootState, seq) ==
    PushOrdered(paths(pkg), load_deps(pkg, rootState, seq),
                load_tdeps(pkg, rootState, seq), world)

\* runtime_paths that takes an empty RUNTIME_PATH for a missing one
runtime_paths_LegacyWhenEmpty(pkg, world, rootState, seq) ==
    LET body == PackageInstall_read_metafile(pkg, "RUNTIME_PATH") IN
    IF body.ok
    THEN IF body.val = <<>> THEN legacy_runtime_paths(pkg, world, rootState, seq)
         ELSE Ok(split_paths(body.val))
    ELSE IF body.err = "MetaFileNotFound"
         THEN legacy_runtime_paths(pkg, world, rootState, seq)
    ELSE body

\* PackageInstall::runtime_paths
runtime_paths(pkg, world, rootState, seq) ==
    LET body == PackageInstall_read_metafile(pkg, "RUNTIME_PATH") IN
    IF body.ok
    THEN IF body.val = <<>> THEN Ok(<<>>)
         ELSE Ok(split_paths(body.val))
    ELSE IF body.err = "MetaFileNotFound"
         THEN legacy_runtime_paths(pkg, world, rootState, seq)
    ELSE body

(***************************************************************************)
(* The runtime path as a state machine: three installed packages, the      *)
(* first with dependencies on the others, and calls on the first.          *)
(***************************************************************************)
\* the longest list of dependencies a DEPS or TDEPS metafile holds
MaxDeps == 2

Alpha == ReleaseIdent(<<"a">>, <<"a">>, <<"1">>, <<"1">>)
Beta == ReleaseIdent(<<"a">>, <<"b">>, <<"1">>, <<"1">>)
Gamma == ReleaseIdent(<<"a">>, <<"c">>, <<"1">>, <<"1">>)

\* a path below the prefix of a package
Below(ident, dir) == pkg_install_path(ident) \o <<"/">> \o dir

RECURSIVE DepListsUpTo(_)
DepListsUpTo(n) ==
    IF n = 0 THEN {<<>>}
    ELSE LET shorter == DepListsUpTo(n - 1) IN
         shorter \cup {Append(l, d) : l \in {m \in shorter : Len(m) = n - 1},
                                      d \in {Beta, Gamma}}

DepLists == DepListsUpTo(MaxDeps)

\* a DEPS or TDEPS metafile as it is produced: one line for each identifier
RECURSIVE DepsBody(_)
DepsBody(list) ==
    IF list = <<>> THEN <<>> ELSE to_string(Head(list)) \o <<"\n">> \o DepsBody(Tail(list))

\* the PATH metafiles: of the first package with an entry twice, the second
\* time with a trailing separator, or with an entry of another package
AlphaPathFiles ==
    {Absent, OpenFails,
     Text(JoinWith(<<Below(Alpha, <<"x">>), Below(Alpha, <<"y">>),
                     Below(Alpha, <<"x", "/">>)>>, ":")),
     Text(JoinWith(<<Below(Alpha, <<"x">>), Below(Beta, <<"x">>)>>, ":"))}
BetaPathFiles ==
    {Absent, Text(Below(Beta, <<"x">>)),
     Text(JoinWith(<<Below(Beta, <<"y">>), Below(Beta, <<"x">>)>>, ":") \o <<"\n">>)}
GammaPathFiles == {Text(Below(Gamma, <<"x">>))}

\* the RUNTIME_PATH metafiles that exist: unreadable, empty, of whitespace, and
\* with entries, one of them empty and one twice
RuntimePathFiles ==
    {OpenFails, NotUtf8, Text(<<>>), Text(<<" ", "\n">>),
     Text(JoinWith(<<Below(Beta, <<"x">>), Below(Alpha, <<"y">>)>>, ":") \o <<"\n">>),
     Text(<<"/", "z", ":", ":", "/", "z">>)}

DepsFiles ==
    {Text(DepsBody(l)) : l \in DepLists}
    \cup {Absent, OpenFails, Text(to_string(NameIdent(<<"a">>, <<"b">>))), Text(<<"x">>)}
TdepsFiles == {Text(DepsBody(l)) : l \in DepLists} \cup {Absent}

\* the TARGET metafiles of a dependency: installed for this target, or not
DepTargetFiles == {Text(<<ActiveTarget>>), Absent}

World(alpha_path, runtime_path, deps, tdeps, beta_target, beta_path, gamma_path) ==
    {Installed(Alpha.origin, Alpha.name, Unwrap(Alpha.version), Unwrap(Alpha.release),
               Text(<<ActiveTarget>>), alpha_path, runtime_path, deps, tdeps),
     Installed(Beta.origin, Beta.name, Unwrap(Beta.version), Unwrap(Beta.release),
               beta_target, beta_path, Absent, Absent, Absent),
     Installed(Gamma.origin, Gamma.name, Unwrap(Gamma.version), Unwrap(Gamma.release),
               Text(<<ActiveTarget>>), gamma_path, Absent, Absent, Absent)}

\* the package the calls are made on
Subject(world) == CHOOSE p \in world : EntryPath(p) = PackageInstall(Alpha).installed_path

InitPaths ==
    /\ root = "dir"
    /\ \/ \E alpha_path \in AlphaPathFiles, deps \in DepsFiles, tdeps \in TdepsFiles,
             beta_target \in DepTargetFiles, beta_path \in BetaPathFiles,
             gamma_path \in GammaPathFiles :
             pkgs = World(alpha_path, Absent, deps, tdeps, beta_target, beta_path,
                          gamma_path)
       \/ \E alpha_path \in AlphaPathFiles, runtime_path \in RuntimePathFiles,
             deps \in {Absent, Text(DepsBody(<<Beta>>)), Text(<<"x">>)},
             tdeps \in {Absent, Text(DepsBody(<<Gamma>>))},
             beta_target \in DepTargetFiles :
             pkgs = World(alpha_path, runtime_path, deps, tdeps, beta_target,
                          Text(Below(Beta, <<"x">>)), Text(Below(Gamma, <<"x">>)))
    /\ call = NoCall
    /\ input = NoInput
    /\ output = NoOutput

\* PackageInstall::paths on one of the packages
Paths ==
    \E p \in pkgs :
        /\ call' = [op |-> "paths",
                    ident |-> Some(ReleaseIdent(p.origin, p.name, p.version, p.entry)),
                    result |-> paths(p)]
        /\ UNCHANGED <<root, pkgs, input, output>>

\* PackageInstall::runtime_paths
RuntimePaths ==
    \E seq \in WalkOrders(pkgs) :
        /\ call' = [op |-> "runtime_paths", ident |-> Some(Alpha),
                    result |-> runtime_paths(Subject(pkgs), pkgs, root, seq)]
        /\ UNCHANGED <<root, pkgs, input, output>>

\* PackageInstall::legacy_runtime_paths
LegacyRuntimePaths ==
    \E seq \in WalkOrders(pkgs) :
        /\ call' = [op |-> "legacy_runtime_paths", ident |-> Some(Alpha),
                    result |-> legacy_runtime_paths(Subject(pkgs), pkgs, root, seq)]
        /\ UNCHANGED <<root, pkgs, input, output>>

NextPaths == Paths \/ RuntimePaths \/ LegacyRuntimePaths

SpecPaths == InitPaths /\ [][NextPaths]_vars

(***************************************************************************)
(* Properties of the runtime path.                                         *)
(***************************************************************************)
\* the installed package of an identifier
InstalledAs(world, ident) == CHOOSE p \in world : IdentOf(p) = ident

\* the identifiers of DEPS, then those of TDEPS
DeclaredDeps(pkg) == read_deps(pkg, "DEPS").val \o read_deps(pkg, "TDEPS").val

\* every read the legacy computation makes succeeds, and every dependency
\* is visible to the resolver
LegacyReadable(pkg, world) ==
    /\ paths(pkg).ok
    /\ read_deps(pkg, "DEPS").ok
    /\ read_deps(pkg, "TDEPS").ok
    /\ \A i \in 1..Len(DeclaredDeps(pkg)) :
          /\ \E p \in world : Qualifies(p) /\ IdentOf(p) = DeclaredDeps(pkg)[i]
          /\ paths(InstalledAs(world, DeclaredDeps(pkg)[i])).ok

\* paths() of each package of a list, one after the other
RECURSIVE PathsInOrder(_, _)
PathsInOrder(idents, world) ==
    IF idents = <<>> THEN <<>>
    ELSE paths(InstalledAs(world, Head(idents))).val \o PathsInOrder(Tail(idents), world)

\* the entries of a list at their first occurrence
RECURSIVE FirstOccurrencesFrom(_, _)
FirstOccurrencesFrom(entries, i) ==
    IF i > Len(entries) THEN <<>>
    ELSE (IF \E j \in 1..(i - 1) : PathEq(entries[j], entries[i]) THEN <<>>
          ELSE <<entries[i]>>)
         \o FirstOccurrencesFrom(entries, i + 1)

C20_RuntimePathSoleSource ==
    call.op = "runtime_paths"
        => LET file == Subject(pkgs).runtime_path IN
           /\ (file.state = "text" /\ Trim(file.text) = <<>>) => call.result = Ok(<<>>)
           /\ (file.state = "text" /\ Trim(file.text) # <<>>)
                 => /\ call.result.ok
                    /\ JoinWith(call.result.val, ":") = Trim(file.text)
                    /\ \A i \in 1..Len(call.result.val) :
                          \A k \in 1..Len(call.result.val[i]) :
                              call.result.val[i][k] # ":"
           /\ file.state \in {"openfails", "notutf8"} => ~call.result.ok
           /\ file.state = "absent"
                 => \E seq \in WalkOrders(pkgs) :
                       call.result = legacy_runtime_paths(Subject(pkgs), pkgs, root, seq)

\* C20 witness: with a PATH metafile and dependencies that can be loaded, the
\* runtime path is the two entries of RUNTIME_PATH, none of them among the
\* paths of the package
C20_Witness ==
    /\ call.op = "runtime_paths"
    /\ Subject(pkgs).deps = Text(DepsBody(<<Beta>>))
    /\ Subject(pkgs).tdeps = Text(DepsBody(<<Gamma>>))
    /\ LegacyReadable(Subject(pkgs), pkgs)
    /\ paths(Subject(pkgs)).val # <<>>
    /\ call.result = Ok(<<Below(Beta, <<"x">>), Below(Alpha, <<"y">>)>>)

(***************************************************************************)
(* The accessors of the metafiles (install.rs).                            *)
(*                                                                         *)
(* A package with every metafile: the ones above as fields, the others in  *)
(* the function meta.  The text of a metafile is a sequence of characters  *)
(* and of words that stand for a run of characters without a separator.    *)
(***************************************************************************)
\* the metafiles held in meta
OtherMetaFiles ==
    {"TYPE", "BINDS", "BINDS_OPTIONAL", "BIND_MAP", "EXPORTS", "EXPOSES",
     "RUNTIME_ENVIRONMENT", "SVC_USER", "SVC_GROUP", "SERVICES"}

\* install.rs: PATH_KEY
PATH_KEY == <<"PATH">>

\* fs::pkg_install_path with an fs_root: the prefix of the package below it
installed_path(ident, fs_root) ==
    (IF fs_root = <<"/">> THEN <<>> ELSE fs_root) \o pkg_install_path(ident)

\* HashMap::new, HashMap::insert and HashMap::remove
EmptyMap == [k \in {} |-> <<>>]
MapInsert(map, key, value) ==
    [k \in DOMAIN map \cup {key} |-> IF k = key THEN value ELSE map[k]]
MapRemove(map, key) == [k \in DOMAIN map \ {key} |-> map[k]]

\* str::splitn(2, "=")
SplitN2(line) ==
    IF \A i \in 1..Len(line) : line[i] # "=" THEN <<line>>
    ELSE LET k == CHOOSE i \in 1..Len(line) :
                      /\ line[i] = "="
                      /\ \A j \in 1..(i - 1) : line[j] # "="
         IN  <<SubSeq(line, 1, k - 1), SubSeq(line, k + 1, Len(line))>>

\* the loop of parse_runtime_environment_metafile over the lines
RECURSIVE ParseEnvLoop(_, _)
ParseEnvLoop(lines, env) ==
    IF lines = <<>> THEN Ok(env)
    ELSE IF Len(SplitN2(Head(lines))) # 2
         THEN Err("MetaFileMalformed", "RUNTIME_ENVIRONMENT")
    ELSE ParseEnvLoop(Tail(lines),
                      MapInsert(env, SplitN2(Head(lines))[1], SplitN2(Head(lines))[2]))

\* PackageInstall::parse_runtime_environment_metafile
parse_runtime_environment_metafile(body) == ParseEnvLoop(Lines(body), EmptyMap)

\* runtime_environment that takes every error of the read for a missing file
runtime_environment_ErrorsAreEmpty(pkg) ==
    LET body == PackageInstall_read_metafile(pkg, "RUNTIME_ENVIRONMENT") IN
    IF body.ok THEN parse_runtime_environment_metafile(body.val)
    ELSE Ok(EmptyMap)

\* PackageInstall::runtime_environment
runtime_environment(pkg) ==
    LET body == PackageInstall_read_metafile(pkg, "RUNTIME_ENVIRONMENT") IN
    IF body.ok THEN parse_runtime_environment_metafile(body.val)
    ELSE IF body.err = "MetaFileNotFound" THEN Ok(EmptyMap)
    ELSE body

\* env::join_paths on Unix: a path with the separator in it cannot be joined
join_paths(entries) ==
    IF \E i \in 1..Len(entries) : \E k \in 1..Len(entries[i]) : entries[i][k] = ":"
    THEN Err("JoinPaths", <<>>)
    ELSE Ok(JoinWith(entries, ":"))

\* environment_for_command that keeps the PATH of RUNTIME_ENVIRONMENT
InsertPath_KeepsOld(env, path) ==
    IF ~path.ok THEN path
    ELSE IF path.val # <<>> /\ PATH_KEY \notin DOMAIN env
         THEN Ok(MapInsert(env, PATH_KEY, path.val))
    ELSE Ok(env)

\* the end of environment_for_command: the joined path is inserted unless it
\* is empty
InsertPath(env, path) ==
    IF ~path.ok THEN path
    ELSE IF path.val # <<>> THEN Ok(MapInsert(MapRemove(env, PATH_KEY), PATH_KEY, path.val))
    ELSE Ok(MapRemove(env, PATH_KEY))

\* the body of environment_for_command once self.runtime_environment()? and
\* self.runtime_paths()? are evaluated
CommandEnvironment(env, entries) ==
    IF ~env.ok THEN env
    ELSE IF ~entries.ok THEN entries
    ELSE InsertPath(env.val, join_paths(entries.val))

\* PackageInstall::environment_for_command
environment_for_command(pkg, world, rootState, seq) ==
    CommandEnvironment(runtime_environment(pkg), runtime_paths(pkg, world, rootState, seq))

\* Bind::from_str: a name and what it binds to, separated by a colon
Bind_from_str(line) ==
    IF Len(SplitOn(line, ":")) = 2
    THEN Ok([name |-> SplitOn(line, ":")[1], ident |-> SplitOn(line, ":")[2]])
    ELSE Err("MetaFileBadBind", <<>>)

\* BindMapping::from_str: a service name and an identifier, separated by a colon
BindMapping_from_str(b) ==
    IF Len(SplitOn(b, ":")) = 2
    THEN Ok([service_name |-> SplitOn(b, ":")[1], ident |-> SplitOn(b, ":")[2]])
    ELSE Err("MetaFileBadBind", <<>>)

\* the loop of binds and of binds_optional over the lines
RECURSIVE BindsLoop(_, _)
BindsLoop(lines, file) ==
    IF lines = <<>> THEN Ok(<<>>)
    ELSE LET bind == Bind_from_str(Head(lines))
             rest == BindsLoop(Tail(lines), file)
         IN  IF ~bind.ok THEN Err("MetaFileMalformed", file)
             ELSE IF ~rest.ok THEN rest
             ELSE Ok(<<bind.val>> \o rest.val)

\* the body that binds and binds_optional share
ReadBinds(pkg, file) ==
    LET body == PackageInstall_read_metafile(pkg, file) IN
    IF body.ok THEN BindsLoop(Lines(body.val), file)
    ELSE IF body.err = "MetaFileNotFound" THEN Ok(<<>>)
    ELSE body

\* PackageInstall::binds
binds(pkg) == ReadBinds(pkg, "BINDS")

\* PackageInstall::binds_optional
binds_optional(pkg) == ReadBinds(pkg, "BINDS_OPTIONAL")

\* binds.split(" ").map(|b| b.parse()).collect(): the first error, else all
RECURSIVE CollectMappings(_)
CollectMappings(parts) ==
    IF parts = <<>> THEN Ok(<<>>)
    ELSE LET mapping == BindMapping_from_str(Head(parts))
             rest == CollectMappings(Tail(parts))
         IN  IF ~mapping.ok THEN mapping
             ELSE IF ~rest.ok THEN rest
             ELSE Ok(<<mapping.val>> \o rest.val)

\* the loop of bind_map over the lines
RECURSIVE BindMapLoop(_, _)
BindMapLoop(lines, map) ==
    IF lines = <<>> THEN Ok(map)
    ELSE LET parts == SplitOn(Head(lines), "=")
             package == from_str(parts[1])
             mappings == IF Len(parts) >= 2 THEN CollectMappings(SplitOn(parts[2], " "))
                         ELSE Err("MetaFileBadBind", <<>>)
         IN  IF ~package.ok THEN package
             ELSE IF ~mappings.ok THEN mappings
             ELSE BindMapLoop(Tail(lines), MapInsert(map, package.val, mappings.val))

\* PackageInstall::bind_map
bind_map(pkg) ==
    LET body == PackageInstall_read_metafile(pkg, "BIND_MAP") IN
    IF body.ok THEN BindMapLoop(Lines(body.val), EmptyMap)
    ELSE IF body.err = "MetaFileNotFound" THEN Ok(EmptyMap)
    ELSE body

\* metadata::parse_key_value: a line without "=" is an error
RECURSIVE parse_key_value_loop(_, _)
parse_key_value_loop(lines, map) ==
    IF lines = <<>> THEN Ok(map)
    ELSE IF Len(SplitN2(Head(lines))) # 2 THEN Err("MetaFileMalformed", <<>>)
    ELSE parse_key_value_loop(Tail(lines),
                              MapInsert(map, SplitN2(Head(lines))[1],
                                        SplitN2(Head(lines))[2]))

parse_key_value(body) == parse_key_value_loop(Lines(body), EmptyMap)

\* PackageInstall::exports
exports(pkg) ==
    LET body == PackageInstall_read_metafile(pkg, "EXPORTS") IN
    IF body.ok
    THEN IF parse_key_value(body.val).ok THEN parse_key_value(body.val)
         ELSE Err("MetaFileMalformed", "EXPORTS")
    ELSE IF body.err = "MetaFileNotFound" THEN Ok(EmptyMap)
    ELSE body

\* str::trim_right_matches('\n')
RECURSIVE TrimRightNewlines(_)
TrimRightNewlines(x) ==
    IF x # <<>> /\ x[Len(x)] = "\n" THEN TrimRightNewlines(SubSeq(x, 1, Len(x) - 1))
    ELSE x

\* PackageInstall::exposes
exposes(pkg) ==
    LET body == PackageInstall_read_metafile(pkg, "EXPOSES") IN
    IF body.ok
    THEN Ok([i \in 1..Len(SplitOn(body.val, " ")) |->
                TrimRightNewlines(SplitOn(body.val, " ")[i])])
    ELSE IF body.err = "MetaFileNotFound" THEN Ok(<<>>)
    ELSE body

\* the body that svc_user and svc_group share
ReadOptional(pkg, file) ==
    LET body == PackageInstall_read_metafile(pkg, file) IN
    IF body.ok THEN Ok(Some(body.val))
    ELSE IF body.err = "MetaFileNotFound" THEN Ok(None)
    ELSE body

\* PackageInstall::svc_user
svc_user(pkg) == ReadOptional(pkg, "SVC_USER")

\* PackageInstall::svc_group
svc_group(pkg) == ReadOptional(pkg, "SVC_GROUP")

\* PackageType::from_str
PackageType_from_str(body) ==
    IF body = <<"Standalone">> THEN Ok("Standalone")
    ELSE IF body = <<"Composite">> THEN Ok("Composite")
    ELSE Err("InvalidPackageType", body)

\* pkg_type for which a missing TYPE metafile is an error
pkg_type_AbsentFails(pkg) ==
    LET body == PackageInstall_read_metafile(pkg, "TYPE") IN
    IF body.ok THEN PackageType_from_str(body.val)
    ELSE body

\* PackageInstall::pkg_type
pkg_type(pkg) ==
    LET body == PackageInstall_read_metafile(pkg, "TYPE") IN
    IF body.ok THEN PackageType_from_str(body.val)
    ELSE IF body.err = "MetaFileNotFound" THEN Ok("Standalone")
    ELSE body

\* PackageInstall::pkg_services
pkg_services(pkg) == read_deps(pkg, "SERVICES")

(***************************************************************************)
(* The metafile accessors as a state machine: one installed package,       *)
(* loaded from an fs_root that input holds, and calls on it.               *)
(***************************************************************************)
\* the fs_root a package is loaded from: the default, and another one
FsRoots == {<<"/">>, <<"/", "r">>}

NoMeta == [file \in OtherMetaFiles |-> Absent]

\* the package of the calls, with no metafile but TARGET
Bare ==
    [origin |-> Alpha.origin, name |-> Alpha.name, version |-> Unwrap(Alpha.version),
     entry |-> Unwrap(Alpha.release), target |-> Text(<<ActiveTarget>>),
     path |-> Absent, runtime_path |-> Absent, deps |-> Absent, tdeps |-> Absent,
     meta |-> NoMeta]

\* the package with one more metafile
WithMetaFile(pkg, file, content) ==
    CASE file = "PATH" -> [pkg EXCEPT !.path = content]
      [] file = "RUNTIME_PATH" -> [pkg EXCEPT !.runtime_path = content]
      [] file = "DEPS" -> [pkg EXCEPT !.deps = content]
      [] file = "TDEPS" -> [pkg EXCEPT !.tdeps = content]
      [] OTHER -> [pkg EXCEPT !.meta[file] = content]

\* the PATH metafiles: entries below the prefix of the package, below its
\* installed_path under the other fs_root, below a prefix that only begins
\* with the same characters, and below another package
MetaPathFiles ==
    {Absent, OpenFails, NotUtf8, Text(<<>>), Text(<<" ", "\n">>),
     Text(Below(Alpha, <<"x">>)),
     Text(JoinWith(<<Below(Alpha, <<"x">>), Below(Beta, <<"x">>),
                     Below(Beta, <<"y">>)>>, ":")),
     Text(JoinWith(<<Below(Beta, <<"x">>), Below(Alpha, <<"y">>),
                     Below(Alpha, <<"x">>)>>, ":") \o <<"\n">>),
     Text(JoinWith(<<<<"/", "r">> \o Below(Alpha, <<"x">>), Below(Alpha, <<"y">>)>>, ":")),
     Text(JoinWith(<<pkg_install_path(Alpha) \o <<"0", "/", "x">>,
                     pkg_install_path(Alpha)>>, ":")),
     Text(<<"/", "r">> \o Below(Alpha, <<"x">>))}

\* the RUNTIME_ENVIRONMENT metafiles: with and without a PATH, a key twice, a
\* value with "=" in it, a line without "="
RuntimeEnvFiles ==
    {Absent, OpenFails, NotUtf8, Text(<<>>),
     Text(<<"k", "=", "v">>),
     Text(<<"PATH", "=", "/", "o">>),
     Text(<<"k", "=", "v", "\n", "PATH", "=", "/", "o", "\n", "j", "=", "w", "\n">>),
     Text(<<"k", "=", "v", "\n", "k", "=", "w">>),
     Text(<<"k", "=", "v", "=", "w">>),
     Text(<<"k", "=", "v", "\n", "k">>)}

\* the RUNTIME_PATH and PATH metafiles next to a RUNTIME_ENVIRONMENT
EnvRuntimePathFiles ==
    {Absent, OpenFails, Text(<<>>), Text(<<"/", "z", ":", "/", "y">>)}
EnvPathFiles ==
    {Absent, NotUtf8, Text(Below(Alpha, <<"x">>)),
     Text(JoinWith(<<Below(Alpha, <<"x">>), Below(Alpha, <<"y">>)>>, ":"))}

\* the metafiles read_deps reads
DepsMetaFiles == {"DEPS", "TDEPS", "SERVICES"}

\* their contents: lists of fully qualified identifiers, and lists with an
\* identifier that is not fully qualified, with a line that is no identifier,
\* with an empty line
DepsContents ==
    {Text(DepsBody(l)) : l \in DepLists}
    \cup {Absent, OpenFails, NotUtf8, Text(<<" ", "\n">>),
          Text(to_string(NameIdent(<<"a">>, <<"b">>))),
          Text(to_string(VersionIdent(<<"a">>, <<"b">>, <<"1">>)) \o <<"\n">>),
          Text(JoinWith(<<to_string(Beta), to_string(NameIdent(<<"a">>, <<"b">>)),
                          to_string(Gamma)>>, "\n")),
          Text(JoinWith(<<to_string(NameIdent(<<"a">>, <<"c">>)), to_string(Beta)>>, "\n")),
          Text(<<"x">>),
          Text(JoinWith(<<<<"x">>, to_string(NameIdent(<<"a">>, <<"b">>))>>, "\n")),
          Text(JoinWith(<<to_string(NameIdent(<<"a">>, <<"b">>)), <<"x">>>>, "\n")),
          Text(JoinWith(<<to_string(Beta), <<>>, to_string(Gamma)>>, "\n"))}

\* the metafiles with an accessor of their own
AccessorMetaFiles == OtherMetaFiles \ {"SERVICES"}

\* their contents: binds, keys with values, bind mappings, package types, a
\* name, ports, each with and without a bad line
AccessorContents ==
    {Absent, OpenFails, NotUtf8, Text(<<>>),
     Text(<<"n", ":", "i">>),
     Text(<<"n", ":", "i", "\n", "m", ":", "j", "\n">>),
     Text(<<"n", ":", "i", "\n", "x">>),
     Text(<<"k", "=", "v">>),
     Text(<<"k", "=", "v", "\n", "x">>),
     Text(to_string(Beta) \o <<"=", "s", ":", "i", " ", "t", ":", "j">>),
     Text(to_string(NameIdent(<<"a">>, <<"b">>)) \o <<"=", "s", ":", "i">>),
     Text(to_string(Beta) \o <<"=", "s", ":", "i", "\n", "x", "=", "s", ":", "i">>),
     Text(to_string(Beta) \o <<"=", "s">>),
     Text(to_string(Beta)),
     Text(<<"Standalone">>), Text(<<"Composite", "\n">>),
     Text(<<"8", "0", " ", "4", "4", "3", "\n">>)}

\* the package the calls are made on
MetaSubject == CHOOSE p \in pkgs : IdentOf(p) = Alpha

\* the order of read_dir over the one package
MetaWalk == CHOOSE seq \in WalkOrders(pkgs) : TRUE

InitMeta ==
    /\ root = "dir"
    /\ \/ \E path \in MetaPathFiles : pkgs = {WithMetaFile(Bare, "PATH", path)}
       \/ \E env \in RuntimeEnvFiles, runtime_path \in EnvRuntimePathFiles,
             path \in EnvPathFiles :
             pkgs = {WithMetaFile(WithMetaFile(WithMetaFile(Bare, "PATH", path),
                                               "RUNTIME_PATH", runtime_path),
                                  "RUNTIME_ENVIRONMENT", env)}
       \/ \E file \in DepsMetaFiles, content \in DepsContents :
             pkgs = {WithMetaFile(Bare, file, content)}
       \/ \E file \in AccessorMetaFiles, content \in AccessorContents :
             pkgs = {WithMetaFile(Bare, file, content)}
    /\ call = NoCall
    /\ \E fs_root \in FsRoots : input = [kind |-> "fs_root", fs_root |-> fs_root]
    /\ output = NoOutput

\* the call of an accessor without an argument
Accessed(op, result) ==
    /\ call' = [op |-> op, ident |-> Some(Alpha), result |-> result]
    /\ UNCHANGED <<root, pkgs, input, output>>

\* PackageInstall::environment_for_command
EnvironmentForCommand ==
    Accessed("environment_for_command",
             environment_for_command(MetaSubject, pkgs, root, MetaWalk))

\* read_deps, through deps, tdeps and pkg_services
ReadDeps ==
    \E file \in DepsMetaFiles :
        /\ call' = [op |-> "read_deps", ident |-> Some(Alpha), file |-> file,
                    result |-> IF file = "SERVICES" THEN pkg_services(MetaSubject)
                               ELSE read_deps(MetaSubject, file)]
        /\ UNCHANGED <<root, pkgs, input, output>>

RuntimeEnvironment == Accessed("runtime_environment", runtime_environment(MetaSubject))
Binds == Accessed("binds", binds(MetaSubject))
BindsOptional == Accessed("binds_optional", binds_optional(MetaSubject))
BindMap == Accessed("bind_map", bind_map(MetaSubject))
Exports == Accessed("exports", exports(MetaSubject))
Exposes == Accessed("exposes", exposes(MetaSubject))
SvcUser == Accessed("svc_user", svc_user(MetaSubject))
SvcGroup == Accessed("svc_group", svc_group(MetaSubject))
PkgType == Accessed("pkg_type", pkg_type(MetaSubject))

NextMeta ==
    \/ Paths
    \/ EnvironmentForCommand
    \/ ReadDeps
    \/ RuntimeEnvironment
    \/ Binds
    \/ BindsOptional
    \/ BindMap
    \/ Exports
    \/ Exposes
    \/ SvcUser
    \/ SvcGroup
    \/ PkgType

SpecMeta == InitMeta /\ [][NextMeta]_vars

(***************************************************************************)
(* Properties of the metafile accessors.                                   *)
(***************************************************************************)
\* the entries of a PATH metafile, in the order of the file
PathEntries(file) ==
    IF Trim(file.text) = <<>> THEN <<>> ELSE SplitOn(Trim(file.text), ":")

\* the positions of the entries below a prefix
Kept(entries, prefix) == {i \in 1..Len(entries) : PathStartsWith(entries[i], prefix)}

\* paths() is the entries of PATH below the prefix, in the order of the file,
\* and is empty when PATH is missing or empty
PathsBelow(prefix) ==
    call.op = "paths"
        => LET file == MetaSubject.path
               entries == PathEntries(file)
               kept == Kept(entries, prefix)
           IN  /\ file.state = "absent" => call.result = Ok(<<>>)
               /\ file.state = "text"
                     => /\ call.result.ok
                        /\ Len(call.result.val) = Cardinality(kept)
                        /\ \A k \in 1..Len(call.result.val) :
                              call.result.val[k] =
                                  entries[CHOOSE i \in kept :
                                              Cardinality({j \in kept : j <= i}) = k]

C22_CommandEnvironment ==
    call.op = "environment_for_command"
        => LET env == runtime_environment(MetaSubject)
               entries == runtime_paths(MetaSubject, pkgs, root, MetaWalk)
               result == call.result
           IN  /\ result.ok <=> (env.ok /\ entries.ok)
               /\ result.ok
                     => /\ DOMAIN result.val \ {PATH_KEY} = DOMAIN env.val \ {PATH_KEY}
                        /\ \A k \in DOMAIN env.val \ {PATH_KEY} : result.val[k] = env.val[k]
                        /\ PATH_KEY \in DOMAIN result.val <=> entries.val # <<>>
                        /\ PATH_KEY \in DOMAIN result.val
                              => result.val[PATH_KEY] = JoinWith(entries.val, ":")

\* C22 witness: RUNTIME_ENVIRONMENT sets k, PATH and j, RUNTIME_PATH holds /z
\* and /y; the environment has k and j as written and /z:/y as PATH
C22_Witness ==
    /\ call.op = "environment_for_command"
    /\ runtime_environment(MetaSubject).ok
    /\ PATH_KEY \in DOMAIN runtime_environment(MetaSubject).val
    /\ runtime_environment(MetaSubject).val[PATH_KEY] = <<"/", "o">>
    /\ call.result.ok
    /\ DOMAIN call.result.val = {<<"k">>, <<"j">>, PATH_KEY}
    /\ call.result.val[<<"k">>] = <<"v">>
    /\ call.result.val[<<"j">>] = <<"w">>
    /\ call.result.val[PATH_KEY] = <<"/", "z", ":", "/", "y">>

MetaFileRead(op) ==
    CASE op = "binds" -> "BINDS"
      [] op = "binds_optional" -> "BINDS_OPTIONAL"
      [] op = "bind_map" -> "BIND_MAP"
      [] op = "exports" -> "EXPORTS"
      [] op = "exposes" -> "EXPOSES"
      [] op = "runtime_environment" -> "RUNTIME_ENVIRONMENT"
      [] op = "svc_user" -> "SVC_USER"
      [] op = "svc_group" -> "SVC_GROUP"
      [] op = "pkg_type" -> "TYPE"
      [] op = "read_deps" -> call.file

\* the accessors of the metafiles that are parsed line by line
LineAccessors == {"binds", "binds_optional", "bind_map", "exports", "runtime_environment"}

\* C24: any line-level parse error in a line-based metafile surfaces as
\* MetaFileMalformed naming that metafile: when BINDS, BINDS_OPTIONAL,
\* BIND_MAP, EXPORTS or RUNTIME_ENVIRONMENT can be read and its accessor fails,
\* it fails with MetaFileMalformed of that metafile.
C24_LineErrorsAreMalformed ==
    (/\ call.op \in LineAccessors
     /\ MetaFileOf(MetaSubject, MetaFileRead(call.op)).state = "text"
     /\ ~call.result.ok)
        => call.result = Err("MetaFileMalformed", MetaFileRead(call.op))

\* what an accessor returns when its metafile is missing
DefaultOf(op) ==
    CASE op \in {"binds", "binds_optional", "exposes", "read_deps"} -> <<>>
      [] op \in {"exports", "bind_map"} -> EmptyMap
      [] op \in {"svc_user", "svc_group"} -> None
      [] op = "pkg_type" -> "Standalone"

\* the accessors of the optional metafiles; read_deps is pkg_services here
OptionalAccessors ==
    {"binds", "binds_optional", "exports", "exposes", "bind_map", "svc_user",
     "svc_group", "pkg_type"}

\* C25: a missing optional metafile is never an error: with the metafile
\* absent, binds, binds_optional, exports, exposes, bind_map and pkg_services
\* return an empty collection, svc_user and svc_group return None, pkg_type
\* returns Standalone; an error of the read other than 'not found' is
\* returned unchanged.
C25_MissingIsDefault ==
    (\/ call.op \in OptionalAccessors
     \/ call.op = "read_deps" /\ call.file = "SERVICES")
        => LET file == MetaFileOf(MetaSubject, MetaFileRead(call.op)) IN
           /\ file.state = "absent" => call.result = Ok(DefaultOf(call.op))
           /\ file.state = "openfails"
                 => call.result = Err("MetaFileIO", MetaFileRead(call.op))
           /\ file.state = "notutf8"
                 => call.result = Err("MetaFileMalformed", MetaFileRead(call.op))

\* C25 witness: without a TYPE metafile the package is a standalone one
C25_Witness ==
    /\ call.op = "pkg_type"
    /\ MetaSubject.meta["TYPE"] = Absent
    /\ call.result = Ok("Standalone")

(***************************************************************************)
(* The queue of caught signals (os/signals/unix.rs).                       *)
(*                                                                         *)
(* In this state machine input holds the process: whether init has run,    *)
(* CAUGHT_SIGNALS (the queue and the thread that holds its lock), and for  *)
(* each thread the handle_signal frames on its stack, the innermost last.  *)
(* call holds the position of the main thread in check_for_signal and what *)
(* the last call returned.  output holds the history: the codes in the     *)
(* order they were pushed, the codes popped and the values returned for    *)
(* them.                                                                   *)
(***************************************************************************)
\* the number of signals delivered to the process
MaxSignals == 3

\* the threads of the process: the one that calls check_for_signal, and another
Threads == {"main", "worker"}

\* the signals set_signal_handlers installs handle_signal for
HandledSignals == {"HUP", "INT", "QUIT", "ALRM", "TERM", "USR1", "USR2", "CHLD"}

from_signal_code(code) ==
    IF code \in {"HUP", "INT", "ILL", "ABRT", "FPE", "KILL", "SEGV", "TERM", "CHLD"}
    THEN Some(code)
    ELSE None

\* SignalEvent
Shutdown == <<"Shutdown">>
WaitForChild == <<"WaitForChild">>
Passthrough(signal) == <<"Passthrough", signal>>

\* the match of check_for_signal on a code taken from the queue
SignalEventOf(code) ==
    LET signal == from_signal_code(code) IN
    IF IsNone(signal) THEN None
    ELSE IF Unwrap(signal) \in {"INT", "TERM"} THEN Some(Shutdown)
    ELSE IF Unwrap(signal) = "CHLD" THEN Some(WaitForChild)
    ELSE Some(Passthrough(Unwrap(signal)))

\* VecDeque::pop_back in the place of pop_front
pop_front_Newest(queue) ==
    IF queue = <<>> THEN [code |-> None, rest |-> queue]
    ELSE [code |-> Some(queue[Len(queue)]), rest |-> SubSeq(queue, 1, Len(queue) - 1)]

\* VecDeque::pop_front
pop_front(queue) ==
    IF queue = <<>> THEN [code |-> None, rest |-> queue]
    ELSE [code |-> Some(Head(queue)), rest |-> Tail(queue)]

\* handle_signal at its start, and with the lock
Frame(code, pc) == [code |-> code, pc |-> pc]

\* the innermost frame of a thread
Top(frames) == frames[Len(frames)]

InitSignals ==
    /\ root = "missing"
    /\ pkgs = {}
    /\ input = [kind |-> "signals", installed |-> FALSE, queue |-> <<>>, lock |-> None,
                frames |-> [t \in Threads |-> <<>>], sent |-> 0]
    /\ call = [op |-> "check_for_signal", pc |-> "idle", result |-> None]
    /\ output = [op |-> "signals", pushed |-> <<>>, popped |-> <<>>, returned |-> <<>>]

\* init: the handlers are installed, once
SignalsInit ==
    /\ ~input.installed
    /\ input' = [input EXCEPT !.installed = TRUE]
    /\ UNCHANGED <<root, pkgs, call, output>>

\* a handled signal is delivered on a thread: handle_signal interrupts what
\* the thread is doing; a signal is blocked while its own handler runs
Deliver ==
    \E code \in HandledSignals, t \in Threads :
        /\ input.installed
        /\ input.sent < MaxSignals
        /\ \A i \in 1..Len(input.frames[t]) : input.frames[t][i].code # code
        /\ input' = [input EXCEPT !.frames[t] = Append(@, Frame(code, "lock")),
                                  !.sent = @ + 1]
        /\ UNCHANGED <<root, pkgs, call, output>>

\* handle_signal: CAUGHT_SIGNALS.lock(), which waits while the lock is held
HandlerLockOn(t) ==
    /\ input.frames[t] # <<>>
    /\ Top(input.frames[t]).pc = "lock"
    /\ input.lock = None
    /\ input' = [input EXCEPT !.lock = Some(t),
                              !.frames[t][Len(input.frames[t])].pc = "locked"]
    /\ UNCHANGED <<root, pkgs, call, output>>

HandlerLock == \E t \in Threads : HandlerLockOn(t)

\* handle_signal: push_back(signal), the guard is dropped, the handler returns
HandlerPushOn(t) ==
    /\ input.frames[t] # <<>>
    /\ Top(input.frames[t]).pc = "locked"
    /\ input' = [input EXCEPT
                    !.queue = Append(@, Top(input.frames[t]).code),
                    !.lock = None,
                    !.frames[t] = SubSeq(@, 1, Len(@) - 1)]
    /\ output' = [output EXCEPT !.pushed = Append(@, Top(input.frames[t]).code)]
    /\ UNCHANGED <<root, pkgs, call>>

HandlerPush == \E t \in Threads : HandlerPushOn(t)

\* the main thread calls check_for_signal
CheckCall ==
    /\ call.pc = "idle"
    /\ input.frames["main"] = <<>>
    /\ call' = [call EXCEPT !.pc = "lock"]
    /\ UNCHANGED <<root, pkgs, input, output>>

\* check_for_signal: CAUGHT_SIGNALS.lock()
CheckLock ==
    /\ call.pc = "lock"
    /\ input.frames["main"] = <<>>
    /\ input.lock = None
    /\ input' = [input EXCEPT !.lock = Some("main")]
    /\ call' = [call EXCEPT !.pc = "locked"]
    /\ UNCHANGED <<root, pkgs, output>>

\* check_for_signal: pop_front, the match on the code, the guard is dropped,
\* the call returns
CheckPop ==
    /\ call.pc = "locked"
    /\ input.frames["main"] = <<>>
    /\ input' = [input EXCEPT !.queue = pop_front(input.queue).rest, !.lock = None]
    /\ IF IsSome(pop_front(input.queue).code)
       THEN /\ call' = [call EXCEPT
                           !.pc = "idle",
                           !.result = SignalEventOf(Unwrap(pop_front(input.queue).code))]
            /\ output' = [output EXCEPT
                             !.popped = Append(@, Unwrap(pop_front(input.queue).code)),
                             !.returned =
                                 Append(@, SignalEventOf(Unwrap(pop_front(input.queue).code)))]
       ELSE /\ call' = [call EXCEPT !.pc = "idle", !.result = None]
            /\ UNCHANGED output
    /\ UNCHANGED <<root, pkgs>>

NextSignals ==
    \/ SignalsInit
    \/ Deliver
    \/ HandlerLock
    \/ HandlerPush
    \/ CheckCall
    \/ CheckLock
    \/ CheckPop

SpecSignals == InitSignals /\ [][NextSignals]_vars

\* every thread runs: a thread that holds the lock goes on, and a thread that
\* waits for the lock gets it when the lock is free again and again
FairSpecSignals ==
    /\ SpecSignals
    /\ \A t \in Threads : SF_vars(HandlerLockOn(t)) /\ WF_vars(HandlerPushOn(t))
    /\ SF_vars(CheckLock)
    /\ WF_vars(CheckPop)

(***************************************************************************)
(* Properties of the queue of caught signals.                              *)
(***************************************************************************)
\* C26: the queue of caught signals is first in, first out and drained one
\* code for each call: the codes popped so far, followed by the queue, are
\* the codes in the order they were pushed; the values returned are those of
\* the codes popped, in that order; and the queue changes only by a handler
\* that pushes one code at its end or by a call of check_for_signal that
\* takes the one code at its front.
C26_FifoOneForEachCall ==
    /\ [](/\ output.pushed = output.popped \o input.queue
          /\ output.returned =
                [i \in 1..Len(output.popped) |-> SignalEventOf(output.popped[i])])
    /\ [][input.queue' # input.queue
            => \/ /\ \E code \in HandledSignals : input.queue' = Append(input.queue, code)
                  /\ call' = call
               \/ /\ call.pc = "locked"
                  /\ call'.pc = "idle"
                  /\ input.queue' = Tail(input.queue)
                  /\ output.popped' = Append(output.popped, Head(input.queue))]_vars

\* C26 witness: TERM was pushed before HUP and a third code waits; two calls
\* returned Shutdown and then the passthrough of HUP
C26_Witness ==
    /\ output.pushed = <<"TERM", "HUP", "CHLD">>
    /\ output.popped = <<"TERM", "HUP">>
    /\ output.returned = <<Some(Shutdown), Some(Passthrough("HUP"))>>
    /\ input.queue = <<"CHLD">>
    /\ call.pc = "idle"

\* C27: every signal init installs a handler for translates to an event when
\* it is taken from the queue: INT and TERM give Shutdown, CHLD gives
\* WaitForChild, every other handled signal the passthrough of that signal;
\* so no caught signal is consumed without being reported.
C27_HandledSignalsReported ==
    \A i \in 1..Len(output.popped) :
        output.returned[i] =
            Some(CASE output.popped[i] \in {"INT", "TERM"} -> Shutdown
                   [] output.popped[i] = "CHLD" -> WaitForChild
                   [] OTHER -> Passthrough(output.popped[i]))

\* C28: the queue cannot deadlock: a handler that has started eventually
\* pushes its code and returns, on every thread, and a call of
\* check_for_signal eventually returns.
C28_NoDeadlock ==
    /\ \A t \in Threads : (input.frames[t] # <<>>) ~> (input.frames[t] = <<>>)
    /\ (call.pc # "idle") ~> (call.pc = "idle")


(***************************************************************************)
(* The partial order against the total order.                              *)
(***************************************************************************)
\* C29: for all Release identifiers a and b with the same name, including
\* those whose versions are not numeric, partial_cmp(a, b) is Some(cmp(a, b)).
C29_PartialAgreesWithTotal ==
    (/\ output.op = "partial_cmp"
     /\ Unwrap(input.a).variant = "Release"
     /\ Unwrap(input.b).variant = "Release"
     /\ Unwrap(input.a).name = Unwrap(input.b).name)
        => output.result = Some(cmp(Unwrap(input.a), Unwrap(input.b)))

\* C30: for all identifiers a and b that both have a version, cmp(a, b) is the
\* reverse of cmp(b, a), including when a version is not numeric.
C30_Antisymmetric ==
    (/\ output.op = "cmp"
     /\ IsSome(Unwrap(input.a).version)
     /\ IsSome(Unwrap(input.b).version))
        => output.result = Reverse(cmp(Unwrap(input.b), Unwrap(input.a)))

====
